---- MODULE Spec2Model ----
(***************************************************************************)
(* A model of bmloader.js: the BM script interpreter (negotiateInstruction *)
(* Line and the operations it dispatches to), the per-model registry       *)
(* (bmDat.variables / bmDat.animations), the expression evaluator          *)
(* (getModValue) and the optimization entry points of RenderBasicModel     *)
(* (optimize, optimizeSafe, shouldAutoMerge, createMergedMesh).            *)
(*                                                                         *)
(* Scene graph: the model root is node 0; every other node is an entry of  *)
(* the sequence `nodes`, identified by its index, and carries its parent   *)
(* link (Object3D.parent), its kind, the signature of its geometry and     *)
(* material and its local position.                                        *)
(***************************************************************************)
EXTENDS Integers, Sequences, FiniteSets, TLC

VARIABLES
    nodes,          \* Object3D instances created so far (index = identity)
    variables,      \* bmDat.variables: ordered map name -> node | raw string
    variableOverrides, \* bmDat.variableOverrides: ordered map name -> raw value
    geoTranslate,   \* bmDat.geoTranslate: the active geometry-translate offset
    storedGeometries, \* the process-wide geometry cache: ordered map geoName -> handle
    geometryData,   \* per geometry handle, where its vertex data lie
    animations,     \* bmDat.animations: ordered map name -> track (index in `tracks`)
    tracks,         \* the arrays of RenderAnimation referenced by `animations`
    currentGroup,   \* loadBM's currentGroup.grp (0 = null)
    scriptLines,    \* bmDat._scriptLines: the instruction lines processed so far
    pc,             \* "build" while loadBM runs, "ready" once it has returned,
                    \* "called" while the caller holds the result of a call
    lastCall,       \* the most recent call on the model's public surface, with its result
    pre,            \* the scene graph and registry as they were when lastCall was issued
    animation,      \* bmDat.animation: the name the host has set ("" = null)
    lastAnimation,  \* bmDat.lastAnimation ("" = null)
    defaultState,   \* bmDat.defaultState: per node, the saved pose or NoState
    rootId,         \* Object3D.id of the model root; node i has id rootId + i
    resetAt,        \* index of the line resetRenderModel's loop is at (0 = no reset runs)
    resetGroup,     \* currentGroup.grp of the running resetRenderModel
    pendingMaterials \* doMaterialOperation calls suspended at an await

geoVars == <<geoTranslate, storedGeometries, geometryData>>

aniVars == <<animation, lastAnimation, defaultState, rootId>>

asyncVars == <<resetAt, resetGroup, pendingMaterials>>

vars == <<nodes, variables, variableOverrides, animations, tracks, currentGroup,
          scriptLines, pc, lastCall, pre, geoVars, aniVars, asyncVars>>

-----------------------------------------------------------------------------
(* Bounds of the model *)

\* number of instruction lines of a script
MaxLines == 4
\* recursion depth after which an evaluation is reported as not terminating
MaxDepth == 6
\* entries of the geometry cache beyond which no further model is loaded
MaxCached == 2

-----------------------------------------------------------------------------
(* Values *)

ROOT == 0
NoParent == -1
\* FULLTURN, in degrees
FullTurn == 360

NullVal == [t |-> "null"]
NodeVal(i) == [t |-> "node", id |-> i]
RawVal(e) == [t |-> "raw", e |-> e]

\* a raw script string, by its syntactic shape
NumE(n) == [t |-> "num", v |-> n]
StrE(s) == [t |-> "str", s |-> s]
RefE(n) == [t |-> "ref", neg |-> FALSE, n |-> n]
NegRefE(n) == [t |-> "ref", neg |-> TRUE, n |-> n]
SumE(ts) == [t |-> "sum", terms |-> ts]
\* the decimal i.f, f one digit that is not 0 (1.5 is DecE(1, 5))
DecE(i, f) == [t |-> "dec", i |-> i, f |-> f]

\* results of an evaluation
NumV(n) == [t |-> "num", v |-> n]
StrV(s) == [t |-> "str", s |-> s]
NaNV == [t |-> "nan"]
\* the number i.f; sums of such numbers are not among the scripts modelled
DecV(i, f) == [t |-> "dec", i |-> i, f |-> f]

-----------------------------------------------------------------------------
(* Ordered maps: a JavaScript object used as a dictionary keeps its keys in  *)
(* insertion order; assigning to an existing key keeps the key's place.      *)

MapHas(m, k) == \E i \in 1..Len(m) : m[i].name = k

MapGet(m, k) == m[CHOOSE i \in 1..Len(m) : m[i].name = k].val

MapSet(m, k, v) ==
    IF MapHas(m, k)
    THEN [m EXCEPT ![CHOOSE i \in 1..Len(m) : m[i].name = k].val = v]
    ELSE Append(m, [name |-> k, val |-> v])

MapKeys(m) == {m[i].name : i \in 1..Len(m)}

\* bmDat.variables[name], null when absent
VarLookup(vs, n) == IF MapHas(vs, n) THEN MapGet(vs, n) ELSE NullVal

Truthy(v) == v.t # "null"

-----------------------------------------------------------------------------
(* getModValue: the expression evaluator.  A result carries the value, the  *)
(* `visited` set as the call left it (the set is shared by the whole        *)
(* evaluation and never shrinks), the deepest nesting of getModValue calls  *)
(* reached through resolveVar, and whether the nesting passed MaxDepth.     *)

EvalRes(v, visited, depth, hang) ==
    [v |-> v, visited |-> visited, depth |-> depth, hang |-> hang]

\* expr-eval's binary +: Number(a) + Number(b)
ToNumber(v) ==
    CASE v.t = "num" -> v
      [] v.t = "null" -> NumV(0)
      [] OTHER -> NaNV

NumAdd(a, b) ==
    IF ToNumber(a).t = "num" /\ ToNumber(b).t = "num"
    THEN NumV(ToNumber(a).v + ToNumber(b).v)
    ELSE NaNV

Max2(a, b) == IF a >= b THEN a ELSE b

RECURSIVE GetModValueAt(_, _, _, _)
RECURSIVE EvalTerms(_, _, _, _, _, _)

\* resolveVar without its visited check: a name met again is resolved again
ResolveVarUnguarded(key, rv, visited, depth) ==
    IF ~MapHas(rv, key)
    THEN EvalRes(NumV(0), visited \cup {key}, depth, FALSE)
    ELSE GetModValueAt(MapGet(rv, key), rv, visited \cup {key}, depth + 1)

\* resolveVar(key), called at nesting `depth`
ResolveVar(key, rv, visited, depth) ==
    IF key \in visited
    THEN EvalRes(NumV(0), visited, depth, FALSE)
    ELSE IF ~MapHas(rv, key)
    THEN EvalRes(NumV(0), visited \cup {key}, depth, FALSE)
    ELSE GetModValueAt(MapGet(rv, key), rv, visited \cup {key}, depth + 1)

\* expr.evaluate(scope): the terms of the expression are read left to right, each
\* variable through the scope proxy, that is through resolveVar
EvalTerms(terms, i, acc, rv, visited, depth) ==
    IF i > Len(terms)
    THEN EvalRes(acc, visited, depth, FALSE)
    ELSE IF terms[i].t = "ref"
    THEN LET r == ResolveVar(terms[i].n, rv, visited, depth)
         IN IF r.hang
            THEN r
            ELSE LET rest == EvalTerms(terms, i + 1, NumAdd(acc, r.v), rv, r.visited, depth)
                 IN EvalRes(rest.v, rest.visited, Max2(r.depth, rest.depth), rest.hang)
    ELSE EvalTerms(terms, i + 1, NumAdd(acc, NumV(terms[i].v)), rv, visited, depth)

GetModValueAt(val, rv, visited, depth) ==
    IF depth > MaxDepth
    THEN EvalRes(NullVal, visited, depth, TRUE)
    ELSE IF val.t # "raw"
    THEN EvalRes(val, visited, depth, FALSE)
    ELSE CASE val.e.t = "ref" ->
                LET r == ResolveVar(val.e.n, rv, visited, depth)
                IN IF r.v.t = "num" /\ val.e.neg
                   THEN EvalRes(NumV(0 - r.v.v), r.visited, r.depth, r.hang)
                   ELSE r
           [] val.e.t = "num" -> EvalRes(NumV(val.e.v), visited, depth, FALSE)
           [] val.e.t = "dec" -> EvalRes(DecV(val.e.i, val.e.f), visited, depth, FALSE)
           [] val.e.t = "str" -> EvalRes(StrV(val.e.s), visited, depth, FALSE)
           [] val.e.t = "sum" -> EvalTerms(val.e.terms, 1, NumV(0), rv, visited, depth)

RECURSIVE SpreadInto(_, _, _)
\* {...m, ...o}: the entries of o from the k-th on, laid over m
SpreadInto(m, o, k) ==
    IF k > Len(o) THEN m ELSE SpreadInto(MapSet(m, o[k].name, o[k].val), o, k + 1)

\* the spread the wrong way round: the script bindings laid over the overrides
RawVarsScriptFirst(vs, ovs) == SpreadInto(ovs, vs, 1)

\* rawVars of getModValue: the script bindings with the overrides laid over them
RawVars(vs, ovs) == SpreadInto(vs, ovs, 1)

\* getModValue(val, renderModel) as its callers use it: a fresh visited set
GetModValue(val, vs, ovs) == GetModValueAt(val, RawVars(vs, ovs), {}, 0)

-----------------------------------------------------------------------------
(* Scene graph *)

DefaultPos == <<NumV(0), NumV(0), NumV(0)>>
DefaultScale == <<NumV(1), NumV(1), NumV(1)>>

\* rot holds the rotation in degrees (the code keeps radians: degrees * PI / 180)
\* geometry is the handle of the node's geometry object (0: none, or one that no
\* cache holds) and geoName the cache key under which its creation looked it up
\* with geoOffset the offset of geoTranslate at that time; parts lists what a
\* merged geometry is made of (empty for every other geometry)
NewMesh(geo, mat, parent) ==
    [kind |-> "mesh", geo |-> geo, mat |-> mat, parent |-> parent,
     pos |-> DefaultPos, rot |-> DefaultPos, scale |-> DefaultScale, opacity |-> 1,
     isInstanced |-> FALSE, geometry |-> 0, geoName |-> "", geoOffset |-> DefaultPos,
     parts |-> <<>>]

NewGroup(parent) ==
    [kind |-> "group", geo |-> "none", mat |-> "none", parent |-> parent,
     pos |-> DefaultPos, rot |-> DefaultPos, scale |-> DefaultScale, opacity |-> 1,
     isInstanced |-> FALSE, geometry |-> 0, geoName |-> "", geoOffset |-> DefaultPos,
     parts |-> <<>>]

\* Object3D.add(child): the child leaves its previous parent
Attach(ns, child, parent) == [ns EXCEPT ![child].parent = parent]

\* Object3D.remove(child)
Detach(ns, child) == [ns EXCEPT ![child].parent = NoParent]

IsMesh(ns, i) == ns[i].kind \in {"mesh", "instanced"}

ChildrenOf(ns, p) == {i \in 1..Len(ns) : ns[i].parent = p}

RECURSIVE UnderRoot(_, _, _)
\* whether traverse() from the root visits node i (fuel stops a parent cycle)
UnderRoot(ns, i, fuel) ==
    IF i = ROOT THEN TRUE
    ELSE IF i = NoParent \/ fuel = 0 THEN FALSE
    ELSE UnderRoot(ns, ns[i].parent, fuel - 1)

\* the nodes this.traverse() visits, the root excluded
Traversed(ns) == {i \in 1..Len(ns) : UnderRoot(ns, i, Len(ns))}

TraversedMeshes(ns) == {i \in Traversed(ns) : IsMesh(ns, i)}

\* the number of draw calls of the model: one per mesh under the root
DrawCalls(ns) == Cardinality(TraversedMeshes(ns))

-----------------------------------------------------------------------------
(* Script lines.  A line is given by its split form: the part before "="    *)
(* (lhs, with its sigil "$" or "@", or no "=" at all), and the modifiers    *)
(* that ">" separates.  `seg` is the text that follows "@" in the first     *)
(* ">"-segment of a line whose left-hand side is an animation name.         *)

VarMod(n) == [t |-> "var", n |-> n]
AniMod(n) == [t |-> "ani", n |-> n]
\* an animation instruction action($target, speed, steps...)
TrackMod(action, target, speed, steps) ==
    [t |-> "inst", action |-> action, target |-> target, speed |-> speed, steps |-> steps]
\* action($target, 90, 0, 90, 180, 270, 360)
InstMod(action, target) ==
    TrackMod(action, target, NumE(90), <<NumE(0), NumE(90), NumE(180), NumE(270), NumE(360)>>)
StartGroupMod == [t |-> "startgroup"]
EndGroupMod == [t |-> "endgroup"]
PrimMod(geo, color) == [t |-> "prim", geo |-> geo, color |-> color]
PositionMod(x, y, z) == [t |-> "position", args |-> <<x, y, z>>]
\* a primitive whose shape parameters are expressions: box($s,1,1,#ff0000)
ShapeMod(shape, params, color) ==
    [t |-> "shape", shape |-> shape, params |-> params, color |-> color]
GeoTranslateMod(x, y, z) == [t |-> "geotranslate", args |-> <<x, y, z>>]
RotateMod(x, y, z) == [t |-> "rotate", args |-> <<x, y, z>>]
ScaleMod(x, y, z) == [t |-> "scale", args |-> <<x, y, z>>]
\* opacity(v), v the integer parseInt reads
OpacityMod(v) == [t |-> "opacity", v |-> v]
OrientationMod(x, y, z) == [t |-> "orientation", args |-> <<x, y, z>>]
\* material(color) or, with texture, material(color,s,m,r,$tex): the fifth
\* argument makes doMaterialOperation await loadTexture
MaterialMod(color, texture) == [t |-> "material", color |-> color, texture |-> texture]
ExprMod(e) == [t |-> "expr", e |-> e]
\* add($n)
AddMod(n) == [t |-> "add", n |-> n]
\* bottomAlign()
BottomAlignMod == [t |-> "bottomAlign"]

CodeLine(sigil, n, mods, seg) ==
    [kind |-> "code", lhs |-> [sigil |-> sigil, n |-> n], mods |-> mods, seg |-> seg]
CommentLine == [kind |-> "comment"]

\* whether the text of a modifier holds a "("
HasParen(mod) == mod.t \notin {"var", "ani", "expr"}

\* parseAnimationInstructions: the action and the target of a RenderAnimation
\* ("" stands for null: a text without "(" leaves both unset)
RenderAnimation(mod) ==
    IF mod.t = "inst"
    THEN [action |-> mod.action, target |-> mod.target, step |-> 0,
          speed |-> mod.speed, steps |-> mod.steps, renTime |-> 0]
    ELSE IF HasParen(mod)
    THEN [action |-> mod.t, target |-> "?", step |-> 0,
          speed |-> NumE(0), steps |-> <<>>, renTime |-> 0]
    ELSE [action |-> "", target |-> "", step |-> 0,
          speed |-> NumE(0), steps |-> <<>>, renTime |-> 0]

\* the state negotiateInstructionLine carries along one line
LineState(ns, vs, ovs, as, ts, grp, geo, usingVar) ==
    [nodes |-> ns, variables |-> vs, overrides |-> ovs, animations |-> as, tracks |-> ts,
     currentGroup |-> grp, geoTranslate |-> geo[1], storedGeometries |-> geo[2],
     geometryData |-> geo[3],
     usingVar |-> usingVar, usingObj |-> NullVal, usingAni |-> "", aniOb |-> 0,
     threw |-> FALSE, pending |-> <<>>, loader |-> TRUE]

\* mod.startsWith("$"): a variable reference
DoVarRef(st, evals) ==
    IF st.usingVar # "" /\ Truthy(VarLookup(st.variables, evals))
    THEN [st EXCEPT !.variables = MapSet(@, st.usingVar, VarLookup(st.variables, evals))]
    ELSE [st EXCEPT !.usingVar = evals, !.usingObj = VarLookup(st.variables, evals)]

\* mod.startsWith("@"): an animation reference
DoAniRef(st, evals) ==
    IF st.usingAni # "" /\ MapHas(st.animations, evals)
    THEN [st EXCEPT !.animations = MapSet(@, st.usingAni, MapGet(st.animations, evals))]
    ELSE [st EXCEPT !.usingAni = evals,
                    !.aniOb = IF MapHas(st.animations, evals)
                              THEN MapGet(st.animations, evals) ELSE 0]

\* usingAni is set: the modifier is an animation instruction of that track
DoAniDef(st, mod) ==
    LET fresh == st.aniOb = 0
        tid == IF fresh THEN Len(st.tracks) + 1 ELSE st.aniOb
        ts == IF fresh THEN Append(st.tracks, <<>>) ELSE st.tracks
    IN [st EXCEPT !.aniOb = tid,
                  !.animations = IF fresh THEN MapSet(@, st.usingAni, tid) ELSE @,
                  !.tracks = [ts EXCEPT ![tid] = Append(@, RenderAnimation(mod))]]

\* startgroup() / endgroup()
DoGrouping(st, mod) ==
    IF mod.t = "endgroup" /\ st.currentGroup # 0
    THEN [st EXCEPT !.nodes = Attach(@, st.currentGroup, ROOT), !.currentGroup = 0]
    ELSE IF mod.t = "startgroup"
    THEN LET g == Len(st.nodes) + 1
         IN [st EXCEPT !.nodes = Append(@, NewGroup(NoParent)),
                       !.currentGroup = g,
                       !.usingObj = NodeVal(g),
                       !.variables = IF st.usingVar # ""
                                     THEN MapSet(@, st.usingVar, NodeVal(g)) ELSE @]
    ELSE st

\* the shape kind and the evaluated shape parameters of a primitive
ShapeSignature(st, mod) ==
    IF mod.t = "shape"
    THEN <<mod.shape>> \o [k \in 1..Len(mod.params) |->
                              GetModValue(RawVal(mod.params[k]), st.variables,
                                          st.overrides).v]
    ELSE <<mod.geo>>

\* "" + v for a value v: the text JavaScript joins into a string
TextOf(v) ==
    CASE v.t = "num" -> ToString(v.v)
      [] v.t = "dec" -> ToString(v.i) \o "." \o ToString(v.f)
      [] v.t = "str" -> v.s
      [] v.t = "nan" -> "NaN"
      [] OTHER -> "null"

RECURSIVE DotJoin(_, _)
\* "." + vs[i] + "." + vs[i+1] + ...
DotJoin(vs, i) == IF i > Len(vs) THEN "" ELSE "." \o TextOf(vs[i]) \o DotJoin(vs, i + 1)

\* geoName: the kind, the shape parameters and the three offsets of geoTranslate,
\* joined with "." into one string (a capsule takes the kind "shape")
GeoName(sig, offset) ==
    (IF sig[1] = "capsule" THEN "shape" ELSE sig[1])
        \o DotJoin(Tail(sig), 1) \o DotJoin(offset, 1)

\* a number in tenths
Tenths(v) == CASE v.t = "num" -> 10 * v.v [] v.t = "dec" -> 10 * v.i + v.f [] OTHER -> 0

\* the lowest y of the vertex data of a new geometry after its translate by
\* geoTranslate, in twentieths: the offset less half the height of a box, less
\* the radius of a round shape (a primitive given by its name is the unit box)
LowestY(sig, offset) ==
    2 * Tenths(offset[2])
       - (IF Len(sig) = 1 THEN 10
          ELSE IF sig[1] = "box" THEN Tenths(sig[3])
          ELSE 2 * Tenths(sig[2]))

\* a creation that never looks into the cache: a new geometry every time
FreshGeometry(sg, name) == Len(sg) + 1

\* the geometry a creation ends up with: the cached one, or a new one
CachedGeometry(sg, name) == IF MapHas(sg, name) THEN MapGet(sg, name) ELSE Len(sg) + 1

\* storedGeometries after that creation
StoreGeometry(sg, name, h) == MapSet(sg, name, h)

\* the geometry of the name geoName, from the cache or new, and setupNewMaterial:
\* the mesh is made of that very geometry
SetupNewMaterial(st, mod, sig, geoName) ==
    LET m == Len(st.nodes) + 1
        parent == IF st.currentGroup # 0 THEN st.currentGroup ELSE ROOT
        geometry == CachedGeometry(st.storedGeometries, geoName)
        lowest == LowestY(sig, st.geoTranslate)
    IN [st EXCEPT !.nodes = Append(@, [NewMesh(IF mod.t = "shape" THEN sig ELSE mod.geo,
                                               mod.color, parent)
                                         EXCEPT !.geometry = geometry,
                                                !.geoName = geoName,
                                                !.geoOffset = st.geoTranslate]),
                  !.storedGeometries = StoreGeometry(@, geoName, geometry),
                  !.geometryData = IF geometry > Len(@)
                                   THEN Append(@, [built |-> lowest, lowest |-> lowest])
                                   ELSE @,
                  !.usingObj = NodeVal(m),
                  !.variables = IF st.usingVar # ""
                                THEN MapSet(@, st.usingVar, NodeVal(m)) ELSE @]

\* createBoxOperation, createSphereOperation, ... followed by setupNewMaterial;
\* each starts by reading loader.defMaterial, a TypeError when no loader was passed
DoPrimitive(st, mod) ==
    IF ~st.loader THEN [st EXCEPT !.threw = TRUE]
    ELSE SetupNewMaterial(st, mod, ShapeSignature(st, mod),
                          GeoName(ShapeSignature(st, mod), st.geoTranslate))

\* handleGeoTranslate(code, renderModel)
HandleGeoTranslate(st, mod) ==
    [st EXCEPT !.geoTranslate =
        [k \in 1..3 |-> GetModValue(RawVal(mod.args[k]), st.variables, st.overrides).v]]

\* doPositionOperation(id, code, renderModel); id is a name or an object
PositionOperation(ns, vs, ovs, obid, args) ==
    IF obid.t = "node"
    THEN [ns EXCEPT ![obid.id].pos = <<GetModValue(RawVal(args[1]), vs, ovs).v,
                                       GetModValue(RawVal(args[2]), vs, ovs).v,
                                       GetModValue(RawVal(args[3]), vs, ovs).v>>]
    ELSE ns

DoPosition(st, mod) ==
    IF st.usingVar # ""
    THEN [st EXCEPT !.nodes = PositionOperation(@, st.variables, st.overrides,
                                  VarLookup(st.variables, st.usingVar), mod.args)]
    ELSE [st EXCEPT !.nodes = PositionOperation(@, st.variables, st.overrides,
                                  st.usingObj, mod.args)]

\* the id a transform or material operation is called with, resolved as its
\* first lines resolve it: the object bound to the name, else the name itself
OperandOf(st) ==
    IF st.usingVar # ""
    THEN IF Truthy(VarLookup(st.variables, st.usingVar))
         THEN VarLookup(st.variables, st.usingVar)
         ELSE StrV(st.usingVar)
    ELSE st.usingObj

\* the three evaluated arguments of a transform
TransformArgs(st, mod) ==
    [k \in 1..3 |-> GetModValue(RawVal(mod.args[k]), st.variables, st.overrides).v]

\* doRotateOperation(id, code, renderModel): only a null id returns early, so
\* an id without a rotation property raises a TypeError
DoRotate(st, mod) ==
    LET obid == OperandOf(st)
    IN IF obid.t = "null" THEN st
       ELSE IF obid.t = "node"
       THEN [st EXCEPT !.nodes[obid.id].rot = TransformArgs(st, mod)]
       ELSE [st EXCEPT !.threw = TRUE]

\* doScaleOperation(id, code, renderModel): as doRotateOperation
DoScale(st, mod) ==
    LET obid == OperandOf(st)
    IN IF obid.t = "null" THEN st
       ELSE IF obid.t = "node"
       THEN [st EXCEPT !.nodes[obid.id].scale = TransformArgs(st, mod)]
       ELSE [st EXCEPT !.threw = TRUE]

\* doOpacityOperation(id, code, renderModel): acts on an id with a material
DoOpacity(st, mod) ==
    LET obid == OperandOf(st)
        opVal == IF mod.v < 0 THEN 0 ELSE IF mod.v > 1 THEN 1 ELSE mod.v
    IN IF obid.t = "node" /\ IsMesh(st.nodes, obid.id)
       THEN [st EXCEPT !.nodes[obid.id].opacity = opVal]
       ELSE st

\* doOrientationOperation(id, code, renderModel): no Object3D has an orientation
DoOrientation(st, mod) == st

\* doMaterialOperation(id, code, renderModel), which the line does not await: up
\* to its first await it runs within the line, the rest whenever the texture is there
DoMaterial(st, mod) ==
    LET obid == OperandOf(st)
    IN IF obid.t # "node" THEN st
       ELSE IF ~IsMesh(st.nodes, obid.id) THEN st
       ELSE IF mod.texture
       THEN [st EXCEPT !.pending = Append(@, [node |-> obid.id, color |-> mod.color])]
       ELSE [st EXCEPT !.nodes[obid.id].mat = mod.color]

\* bottomAlign(): the geometry of usingObj is translated, in place, by minus the
\* lowest y of its bounding box
DoBottomAlign(st) ==
    IF st.usingObj.t = "node" /\ st.nodes[st.usingObj.id].geometry # 0
    THEN [st EXCEPT !.geometryData[st.nodes[st.usingObj.id].geometry].lowest = 0]
    ELSE st

\* add($target): usingObj.add(targetObj) when both are there and usingObj has a
\* method add.  Object3D.add takes the object out of its parent and makes it a
\* child; it refuses the object itself and anything that is no Object3D
DoAdd(st, mod) ==
    LET targetObj == VarLookup(st.variables, mod.n)
    IN IF Truthy(targetObj) /\ st.usingObj.t = "node"
          /\ targetObj.t = "node" /\ targetObj.id # st.usingObj.id
       THEN [st EXCEPT !.nodes = Attach(@, targetObj.id, st.usingObj.id)]
       ELSE st

\* the fallback: an unknown modifier is a value assignment
DoFallback(st, mod) ==
    IF st.usingVar # ""
    THEN [st EXCEPT !.variables = MapSet(@, st.usingVar, RawVal(mod.e))]
    ELSE st

\* whether the text of the modifier starts with "$", and the name that follows
StartsWithDollar(mod) ==
    \/ mod.t = "var"
    \/ mod.t = "expr" /\ mod.e.t = "ref" /\ ~mod.e.neg
DollarName(mod) == IF mod.t = "var" THEN mod.n ELSE mod.e.n

\* one pass of the loop over modParts
ApplyMod(st, mod) ==
    IF StartsWithDollar(mod) THEN DoVarRef(st, DollarName(mod))
    ELSE IF mod.t = "ani" THEN DoAniRef(st, mod.n)
    ELSE IF st.usingAni # "" THEN DoAniDef(st, mod)
    ELSE IF mod.t \in {"startgroup", "endgroup"} THEN DoGrouping(st, mod)
    ELSE IF mod.t \in {"prim", "shape"} THEN DoPrimitive(st, mod)
    ELSE IF mod.t = "add" THEN DoAdd(st, mod)
    ELSE IF mod.t = "material" THEN DoMaterial(st, mod)
    ELSE IF mod.t = "bottomAlign" THEN DoBottomAlign(st)
    ELSE IF mod.t = "geotranslate" THEN HandleGeoTranslate(st, mod)
    ELSE IF mod.t = "position" THEN DoPosition(st, mod)
    ELSE IF mod.t = "rotate" THEN DoRotate(st, mod)
    ELSE IF mod.t = "scale" THEN DoScale(st, mod)
    ELSE IF mod.t = "opacity" THEN DoOpacity(st, mod)
    ELSE IF mod.t = "orientation" THEN DoOrientation(st, mod)
    ELSE IF mod.t = "expr" THEN DoFallback(st, mod)
    ELSE st

RECURSIVE ApplyMods(_, _, _)
\* an exception ends the loop; s is the state that the pass over mods[i] leaves
ApplyMods(st, mods, i) ==
    IF i > Len(mods) \/ st.threw THEN st ELSE ApplyMods(ApplyMod(st, mods[i]), mods, i + 1)

\* the modifiers as line.split(">") yields them: when the part before "=" does not
\* start with "$" the whole line is split, so its first segment starts with that part
ModParts(line) ==
    IF line.lhs.sigil = "@"
    THEN <<AniMod(line.seg)>> \o Tail(line.mods)
    ELSE line.mods

\* the name before "=" when it starts with "$"
UsingVarOf(line) == IF line.lhs.sigil = "$" THEN line.lhs.n ELSE ""

\* negotiateInstructionLine on a line that is neither empty nor a comment, without
\* the push to _scriptLines, from the state st0 of its first modifier
NegotiateFrom(line, st0) ==
    LET usingVar == st0.usingVar
        modParts == ModParts(line)
    IN IF Len(modParts) = 1 /\ usingVar # "" /\ ~HasParen(modParts[1])
          /\ modParts[1].t # "ani"
       THEN [st0 EXCEPT !.variables =
                MapSet(@, usingVar,
                       RawVal(IF modParts[1].t = "var" THEN RefE(modParts[1].n)
                              ELSE modParts[1].e))]
       ELSE ApplyMods(st0, modParts, 1)

\* negotiateInstructionLine(line, renderModel, currentGroup, loader), as loadBM
\* calls it
NegotiateInstructionLine(line, ns, vs, ovs, as, ts, grp, geo) ==
    NegotiateFrom(line, LineState(ns, vs, ovs, as, ts, grp, geo, UsingVarOf(line)))

\* negotiateInstructionLine(line, renderModel, currentGroup), as resetRenderModel
\* calls it: the loader is undefined
NegotiateWithoutLoader(line, ns, vs, ovs, as, ts, grp, geo) ==
    NegotiateFrom(line, [LineState(ns, vs, ovs, as, ts, grp, geo, UsingVarOf(line))
                            EXCEPT !.loader = FALSE])

-----------------------------------------------------------------------------
(* saveState() and restoreState() *)

NoState == [saved |-> FALSE]

\* the stateOb of a node
Pose(node) == [saved |-> TRUE, rot |-> node.rot, pos |-> node.pos, scale |-> node.scale]

\* defaultState[id] of node i, undefined when nothing was saved for it
SavedState(ds, i) == IF i <= Len(ds) THEN ds[i] ELSE NoState

\* saveModelState(renderModel, renderModel): returns at once on an object whose
\* id is 0, else records the pose of the object and descends into its children
\* (the root itself is never moved and its entry is left out)
SaveModelState(ns, ds, rid) ==
    IF rid = 0 THEN ds
    ELSE [i \in 1..Max2(Len(ns), Len(ds)) |->
            IF i <= Len(ns) /\ UnderRoot(ns, i, Len(ns)) THEN Pose(ns[i])
            ELSE SavedState(ds, i)]

\* restoreModelState(renderModel, renderModel)
RestoreModelState(ns, ds, rid) ==
    IF rid = 0 THEN ns
    ELSE [i \in 1..Len(ns) |->
            IF UnderRoot(ns, i, Len(ns)) /\ SavedState(ds, i).saved
            THEN [ns[i] EXCEPT !.rot = ds[i].rot, !.pos = ds[i].pos, !.scale = ds[i].scale]
            ELSE ns[i]]

-----------------------------------------------------------------------------
(* animate(delta).  Time is counted in steps of 1/DeltaDen second, which is  *)
(* exact for speeds that are multiples of DeltaDen degrees per second.  The  *)
(* tracks of the scripts modelled here rotate, change the texture, or carry  *)
(* an action doAnimate has no branch for; position and scale tracks, which   *)
(* share the code of the rotate branch but for the full-turn wrap, are not   *)
(* among them.                                                               *)

DeltaDen == 4

\* changeBaseOb for the action of an instruction ("" = null)
ChangeBaseOb(action) ==
    IF action \in {"rotateX", "rotateY", "rotateZ"} THEN "rotation" ELSE ""

\* subProp of a rotate action, as the index of the axis
SubProp(action) ==
    CASE action = "rotateX" -> 1
      [] action = "rotateY" -> 2
      [] OTHER -> 3

\* what one doAnimate leaves: the nodes, the instruction, whether it threw, and
\* the material swaps it started without waiting for them
AnimRes(ns, inst, threw) ==
    [nodes |-> ns, inst |-> inst, threw |-> threw, pending |-> <<>>]

\* a cursor that is never reset
KeepStep(inst) == inst

\* inst.step >= inst.steps.length resets the cursor
WrapStep(inst) == IF inst.step >= Len(inst.steps) THEN [inst EXCEPT !.step = 0] ELSE inst

\* the rotate branch of doAnimate: the angle cur of the axis moves by speed
\* towards target
Turn(cur, speed, target) ==
    IF cur > target
    THEN IF cur - speed <= target
         THEN [angle |-> IF target <= 0 - FullTurn THEN target + FullTurn ELSE target,
               reached |-> TRUE]
         ELSE [angle |-> cur - speed, reached |-> FALSE]
    ELSE IF cur + speed >= target
         THEN [angle |-> IF target >= FullTurn THEN target - FullTurn ELSE target,
               reached |-> TRUE]
         ELSE [angle |-> IF cur + speed >= FullTurn THEN cur + speed - FullTurn
                         ELSE cur + speed,
               reached |-> FALSE]

\* the node and the cursor after that move
Turned(ns, inst, i, k, t) ==
    AnimRes([ns EXCEPT ![i].rot[k] = NumV(t.angle)],
            WrapStep(IF t.reached THEN [inst EXCEPT !.step = @ + 1] ELSE inst), FALSE)

\* doAnimate(model, inst, delta) on a target that is a node, the action a rotate
RotateStep(ns, vs, ovs, inst, delta, i) ==
    Turned(ns, inst, i, SubProp(inst.action),
           Turn(ns[i].rot[SubProp(inst.action)].v,
                (GetModValue(RawVal(inst.speed), vs, ovs).v.v * delta) \div DeltaDen,
                GetModValue(RawVal(inst.steps[inst.step + 1]), vs, ovs).v.v))

\* the texture a step of a txChange instruction names
TextureOf(e) == IF e.t = "str" THEN e.s ELSE "?"

\* the txChange branch of doAnimate: renTime counts up to inst.speed, the raw text
\* of the speed; then getTextureMaterial(...).then(...) is started and not waited
\* for, and the cursor advances.  ob.material.transparent raises a TypeError when
\* the target has no material
TxChangeStep(ns, inst, delta, ob) ==
    LET ren == inst.renTime + delta
        due == inst.speed.t = "num" /\ ren >= inst.speed.v * DeltaDen
    IN IF ~due THEN AnimRes(ns, [inst EXCEPT !.renTime = ren], FALSE)
       ELSE IF ob.t # "node" \/ ~IsMesh(ns, ob.id)
       THEN AnimRes(ns, [inst EXCEPT !.renTime = 0], TRUE)
       ELSE [AnimRes(ns, WrapStep([inst EXCEPT !.renTime = 0, !.step = @ + 1]), FALSE)
                EXCEPT !.pending =
                   IF inst.step < Len(inst.steps)
                   THEN <<[node |-> ob.id, color |-> TextureOf(inst.steps[inst.step + 1])]>>
                   ELSE <<>>]

\* doAnimate(model, inst, delta): nothing without a target object; an action with
\* no branch leaves changeBaseOb null, and reading ob[null][subProp] raises a
\* TypeError, as does reading the rotation of a target that is a raw string
DoAnimate(ns, vs, ovs, inst, delta) ==
    LET ob == VarLookup(vs, inst.target)
    IN IF ~Truthy(ob) THEN AnimRes(ns, inst, FALSE)
       ELSE IF inst.action = "txChange" THEN TxChangeStep(ns, inst, delta, ob)
       ELSE IF ChangeBaseOb(inst.action) = "" \/ ob.t # "node"
       THEN AnimRes(ns, inst, TRUE)
       ELSE RotateStep(ns, vs, ovs, inst, delta, ob.id)

\* the swaps an instruction started come before those of the instructions after it
StartedBefore(pending, res) == [res EXCEPT !.pending = pending \o @]

RECURSIVE AnimateTrack(_, _, _, _, _, _)
\* the loop goes on after the doAnimate of instruction i, which left r
AnimateRest(r, vs, ovs, track, delta, i) ==
    IF r.threw
    THEN [nodes |-> r.nodes, track |-> [track EXCEPT ![i] = r.inst],
          threw |-> TRUE, pending |-> <<>>]
    ELSE StartedBefore(r.pending,
                       AnimateTrack(r.nodes, vs, ovs, [track EXCEPT ![i] = r.inst],
                                    delta, i + 1))

\* the loop of animateModel over the instructions of the track; an exception ends it
AnimateTrack(ns, vs, ovs, track, delta, i) ==
    IF i > Len(track)
    THEN [nodes |-> ns, track |-> track, threw |-> FALSE, pending |-> <<>>]
    ELSE AnimateRest(DoAnimate(ns, vs, ovs, track[i], delta), vs, ovs, track, delta, i)

-----------------------------------------------------------------------------
(* Helpers of the optimization methods of RenderBasicModel *)

\* findVariableNameForObject(object): the first name bound to it, "" for null
FindVariableNameForObject(vs, i) ==
    IF \E k \in 1..Len(vs) : vs[k].val = NodeVal(i)
    THEN LET first == CHOOSE k \in 1..Len(vs) :
                        /\ vs[k].val = NodeVal(i)
                        /\ \A j \in 1..(k - 1) : vs[j].val # NodeVal(i)
         IN vs[first].name
    ELSE ""

\* Object.keys(this.bmDat.animations || {}).length > 0
HasAnimations(as) == Len(as) > 0

\* anim.target of every instruction of every animation
AnimTargets(as, ts) ==
    UNION {{ts[as[k].val][j].target : j \in 1..Len(ts[as[k].val])} : k \in 1..Len(as)}

\* getSimpleGeometryKey + getSimpleMaterialKey (also getGeometryKey + getMaterialKey),
\* or the material key alone
KeyOf(ns, i, full) == IF full THEN <<ns[i].geo, ns[i].mat>> ELSE <<ns[i].mat>>

GroupOf(ns, S, key, full) == {i \in S : KeyOf(ns, i, full) = key}

RECURSIVE KeysInOrder(_, _, _, _, _)
\* the keys of a Map filled while traversing the nodes of S, in insertion order
KeysInOrder(ns, S, full, i, acc) ==
    IF i > Len(ns) THEN acc
    ELSE IF i \in S /\ ~\E k \in 1..Len(acc) : acc[k] = KeyOf(ns, i, full)
    THEN KeysInOrder(ns, S, full, i + 1, Append(acc, KeyOf(ns, i, full)))
    ELSE KeysInOrder(ns, S, full, i + 1, acc)

MinOf(S) == CHOOSE x \in S : \A y \in S : x <= y

RECURSIVE Ancestors(_, _, _)
\* the parents of node i up to, and without, the model root
Ancestors(ns, i, fuel) ==
    IF fuel = 0 \/ ns[i].parent = ROOT \/ ns[i].parent = NoParent THEN {}
    ELSE {ns[i].parent} \cup Ancestors(ns, ns[i].parent, fuel - 1)

\* remove every child of the root: while (children.length > 0) remove(children[0])
ClearRoot(ns) ==
    [i \in 1..Len(ns) |-> IF ns[i].parent = ROOT THEN [ns[i] EXCEPT !.parent = NoParent]
                          ELSE ns[i]]

Undefined == [t |-> "undefined"]

-----------------------------------------------------------------------------
(* optimizeSafe(options) *)

\* the default options of optimizeSafe
OptimizeSafeDefaults == [instanceThreshold |-> 2, dryRun |-> TRUE, allowOptimization |-> FALSE]

\* children of the root that are a mesh or have a mesh among their children
TotalMeshes(ns) ==
    Cardinality({c \in ChildrenOf(ns, ROOT) :
                    IsMesh(ns, c) \/ \E d \in ChildrenOf(ns, c) : IsMesh(ns, d)})

AdaptiveThreshold(instanceThreshold, ns, as) ==
    IF TotalMeshes(ns) <= 5 /\ ~HasAnimations(as)
    THEN Max2(2, instanceThreshold \div 2)
    ELSE instanceThreshold

\* isActuallyAnimated of the traverse callback
IsActuallyAnimated(ns, vs, as, ts, i) ==
    LET varName == FindVariableNameForObject(vs, i)
        actuallyAnimatedObjects == AnimTargets(as, ts)
    IN /\ HasAnimations(as)
       /\ varName # ""
       /\ \/ varName \in actuallyAnimatedObjects
          \/ \E p \in Ancestors(ns, i, Len(ns)) :
                /\ FindVariableNameForObject(vs, p) # ""
                /\ FindVariableNameForObject(vs, p) \in actuallyAnimatedObjects

\* the meshes with canOptimize, which are the members of instanceCandidates
Optimizable(ns, vs, as, ts) ==
    {i \in TraversedMeshes(ns) : ~IsActuallyAnimated(ns, vs, as, ts, i)}

\* the candidate groups that reach the threshold
InstanceGroups(ns, candidates, threshold) ==
    {key \in {KeyOf(ns, i, TRUE) : i \in candidates} :
        Cardinality(GroupOf(ns, candidates, key, TRUE)) >= threshold}

\* the sum of candidates.length - 1 over those groups
PotentialSavings(ns, candidates, threshold) ==
    LET groups == InstanceGroups(ns, candidates, threshold)
    IN Cardinality({i \in candidates : KeyOf(ns, i, TRUE) \in groups})
       - Cardinality(groups)

\* what optimizeSafe returns
OptimizeSafe(o, ns, vs, as, ts) ==
    IF ~o.dryRun /\ ~o.allowOptimization
    THEN Undefined
    ELSE IF o.dryRun
    THEN LET thr == AdaptiveThreshold(o.instanceThreshold, ns, as)
             candidates == Optimizable(ns, vs, as, ts)
             savings == PotentialSavings(ns, candidates, thr)
         IN [t |-> "analysis",
             totalObjects |-> Cardinality(TraversedMeshes(ns)),
             actuallyAnimatedObjects |-> Cardinality(TraversedMeshes(ns) \ candidates),
             optimizableObjects |-> Cardinality(candidates),
             potentialSavings |-> savings,
             instanceGroups |-> Cardinality(InstanceGroups(ns, candidates, thr)),
             hasAnimations |-> HasAnimations(as),
             safe |-> savings > 0]
    ELSE Undefined

\* the scene graph after optimizeSafe: no branch of the method changes it
OptimizeSafeNodes(o, ns, vs, as, ts) == ns

-----------------------------------------------------------------------------
(* createMergedMesh(options) *)

\* the default options of createMergedMesh (preserveUVs and preserveColors only
\* select vertex attributes of the merged geometry)
CreateMergedMeshDefaults == [dryRun |-> TRUE, allowMerging |-> FALSE]

NoAnalysis == [originalDrawCalls |-> 0, mergedDrawCalls |-> 0, savings |-> 0]

\* a returned object: t tells its shape, fields it does not have keep their default
MergeResult(t, canMerge, reason, success, analysis) ==
    [t |-> t, canMerge |-> canMerge, reason |-> reason, success |-> success,
     analysis |-> analysis]

Refusal(reason) == MergeResult("refusal", FALSE, reason, FALSE, NoAnalysis)

\* materialGroups: the material keys of the traversed meshes, in insertion order
MaterialKeys(ns) == KeysInOrder(ns, TraversedMeshes(ns), FALSE, 1, <<>>)

\* the analysis of a model with two meshes or more
MergeAnalysis(ns) ==
    LET n == Cardinality(TraversedMeshes(ns))
        mats == Len(MaterialKeys(ns))
    IN [originalDrawCalls |-> n,
        mergedDrawCalls |-> IF mats = 1 THEN 1 ELSE mats,
        savings |-> IF mats = 1 THEN n - 1 ELSE n - mats]

\* whether the merge reaches BufferGeometryUtils.mergeGeometries
CallsMergeGeometries(ns) ==
    \E k \in 1..Len(MaterialKeys(ns)) :
        Cardinality(GroupOf(ns, TraversedMeshes(ns), MaterialKeys(ns)[k], FALSE)) >= 2

\* new Mesh(mergedGeometry, meshes[0].material) with position, rotation and scale
\* at their defaults
MergedMeshOf(mat) == NewMesh("merged", mat, ROOT)

\* mesh.updateMatrix(): mesh.matrix composed of the mesh's own position, rotation
\* and scale
LocalMatrix(node) == [pos |-> node.pos, rot |-> node.rot, scale |-> node.scale]

RECURSIVE BakedGeometries(_, _, _, _)
\* meshes.map(mesh => ...): a clone of every mesh's geometry with mesh.matrix
\* applied to it, in the order of the meshes
BakedGeometries(ns, grp, i, acc) ==
    IF i > Len(ns) THEN acc
    ELSE IF i \in grp
    THEN BakedGeometries(ns, grp, i + 1,
                         Append(acc, [src |-> i, matrix |-> LocalMatrix(ns[i])]))
    ELSE BakedGeometries(ns, grp, i + 1, acc)

\* the mesh createSingleMaterialMerge returns for the meshes grp of one material
CreateSingleMaterialMerge(ns, grp, mat) ==
    [MergedMeshOf(mat) EXCEPT !.parts = BakedGeometries(ns, grp, 1, <<>>)]

\* createSingleMaterialMerge(meshes) of a model whose meshes share one material
MergeAll(ns) ==
    CreateSingleMaterialMerge(ns, TraversedMeshes(ns), MaterialKeys(ns)[1][1])

RECURSIVE AddMerged(_, _, _, _, _)
\* mergedMesh.forEach(mesh => this.add(mesh)) over the result of
\* createMultiMaterialMerge: a material with one mesh contributes that mesh itself
AddMerged(ns, orig, meshes, keys, k) ==
    IF k > Len(keys) THEN ns
    ELSE LET grp == GroupOf(orig, meshes, keys[k], FALSE)
         IN IF Cardinality(grp) = 1
            THEN AddMerged(Attach(ns, MinOf(grp), ROOT), orig, meshes, keys, k + 1)
            ELSE AddMerged(Append(ns, CreateSingleMaterialMerge(orig, grp, keys[k][1])),
                           orig, meshes, keys, k + 1)

\* createMergedMesh without its animation check
CreateMergedMeshUnchecked(o, throws, ns, as) ==
    IF ~o.dryRun /\ ~o.allowMerging
    THEN Undefined
    ELSE IF Cardinality(TraversedMeshes(ns)) = 0
    THEN Refusal("No meshes found to merge")
    ELSE IF Cardinality(TraversedMeshes(ns)) = 1
    THEN MergeResult("optimal", TRUE, "", FALSE,
                     [originalDrawCalls |-> 1, mergedDrawCalls |-> 1, savings |-> 0])
    ELSE IF o.dryRun
    THEN MergeResult("analysis", TRUE, "", FALSE, MergeAnalysis(ns))
    ELSE IF throws /\ CallsMergeGeometries(ns)
    THEN Refusal("Merge operation failed")
    ELSE MergeResult("merged", FALSE, "", TRUE, MergeAnalysis(ns))

\* what createMergedMesh returns; throws: mergeGeometries raises
CreateMergedMesh(o, throws, ns, as) ==
    IF ~o.dryRun /\ ~o.allowMerging
    THEN Undefined
    ELSE IF HasAnimations(as)
    THEN Refusal("Model has animations")
    ELSE IF Cardinality(TraversedMeshes(ns)) = 0
    THEN Refusal("No meshes found to merge")
    ELSE IF Cardinality(TraversedMeshes(ns)) = 1
    THEN MergeResult("optimal", TRUE, "", FALSE,
                     [originalDrawCalls |-> 1, mergedDrawCalls |-> 1, savings |-> 0])
    ELSE IF o.dryRun
    THEN MergeResult("analysis", TRUE, "", FALSE, MergeAnalysis(ns))
    ELSE IF throws /\ CallsMergeGeometries(ns)
    THEN Refusal("Merge operation failed")
    ELSE MergeResult("merged", FALSE, "", TRUE, MergeAnalysis(ns))

\* createMergedMesh merging whatever dryRun says
CreateMergedMeshNodesEager(o, throws, ns, as) ==
    IF HasAnimations(as) \/ Cardinality(TraversedMeshes(ns)) < 2
    THEN ns
    ELSE IF Len(MaterialKeys(ns)) = 1
    THEN Append(ClearRoot(ns), MergeAll(ns))
    ELSE AddMerged(ClearRoot(ns), ns, TraversedMeshes(ns), MaterialKeys(ns), 1)

\* createMergedMesh emptying the root before it builds the merged meshes
CreateMergedMeshNodesTorn(o, throws, ns, as) ==
    IF CreateMergedMesh(o, throws, ns, as).t = "merged"
    THEN IF Len(MaterialKeys(ns)) = 1
         THEN Append(ClearRoot(ns), MergeAll(ns))
         ELSE AddMerged(ClearRoot(ns), ns, TraversedMeshes(ns), MaterialKeys(ns), 1)
    ELSE IF CreateMergedMesh(o, throws, ns, as) = Refusal("Merge operation failed")
    THEN ClearRoot(ns)
    ELSE ns

\* the scene graph after createMergedMesh
CreateMergedMeshNodes(o, throws, ns, as) ==
    IF CreateMergedMesh(o, throws, ns, as).t # "merged"
    THEN ns
    ELSE IF Len(MaterialKeys(ns)) = 1
    THEN Append(ClearRoot(ns), MergeAll(ns))
    ELSE AddMerged(ClearRoot(ns), ns, TraversedMeshes(ns), MaterialKeys(ns), 1)

-----------------------------------------------------------------------------
(* optimize(options) *)

\* the default options of optimize
OptimizeDefaults == [instanceThreshold |-> 3, preserveAnimated |-> TRUE]

\* animatedMeshes of optimize
AnimatedMeshes(o, ns, vs, as, ts) ==
    IF o.preserveAnimated
    THEN {i \in TraversedMeshes(ns) : FindVariableNameForObject(vs, i) \in AnimTargets(as, ts)}
    ELSE {}

StaticMeshes(o, ns, vs, as, ts) == TraversedMeshes(ns) \ AnimatedMeshes(o, ns, vs, as, ts)

\* createInstancedMesh(meshes)
NewInstancedMesh(geo, mat) ==
    [kind |-> "instanced", geo |-> geo, mat |-> mat, parent |-> ROOT,
     pos |-> DefaultPos, rot |-> DefaultPos, scale |-> DefaultScale, opacity |-> 1,
     isInstanced |-> FALSE, geometry |-> 0, geoName |-> "", geoOffset |-> DefaultPos,
     parts |-> <<>>]

\* userData.isInstanced of the named members of an instanced group
MarkInstanced(ns, vs, grp) ==
    [i \in 1..Len(ns) |->
        IF i \in grp /\ FindVariableNameForObject(vs, i) # ""
        THEN [ns[i] EXCEPT !.isInstanced = TRUE] ELSE ns[i]]

\* this.add(mesh) for every mesh of S
AttachAll(ns, S, parent) ==
    [i \in 1..Len(ns) |-> IF i \in S THEN [ns[i] EXCEPT !.parent = parent] ELSE ns[i]]

RECURSIVE ProcessInstanceGroups(_, _, _, _, _, _, _)
\* the loop over instanceGroups.entries()
ProcessInstanceGroups(ns, orig, vs, static, keys, k, threshold) ==
    IF k > Len(keys) THEN ns
    ELSE LET grp == GroupOf(orig, static, keys[k], TRUE)
         IN IF Cardinality(grp) >= threshold
            THEN ProcessInstanceGroups(
                     Append(MarkInstanced(ns, vs, grp),
                            NewInstancedMesh(keys[k][1], keys[k][2])),
                     orig, vs, static, keys, k + 1, threshold)
            ELSE ProcessInstanceGroups(AttachAll(ns, grp, ROOT),
                                       orig, vs, static, keys, k + 1, threshold)

\* the scene graph after optimize (the method returns nothing)
OptimizeNodes(o, ns, vs, as, ts) ==
    IF StaticMeshes(o, ns, vs, as, ts) = {}
    THEN ns
    ELSE ProcessInstanceGroups(
             AttachAll(ClearRoot(ns), AnimatedMeshes(o, ns, vs, as, ts), ROOT),
             ns, vs, StaticMeshes(o, ns, vs, as, ts),
             KeysInOrder(ns, StaticMeshes(o, ns, vs, as, ts), TRUE, 1, <<>>),
             1, o.instanceThreshold)

-----------------------------------------------------------------------------
(* shouldAutoMerge(context).  Confidence and the performance threshold are   *)
(* kept in percent.                                                          *)

\* the default context of shouldAutoMerge
ShouldAutoMergeDefaults ==
    [instanceCount |-> 1, isStatic |-> "null", allowBreaking |-> FALSE,
     performanceThreshold |-> 50]

\* named objects above which an animated model is called out
ManyNamesAnimated == 15
\* named objects above which a static model is rated medium
ManyNamesStatic == 30
\* instanceCount of isHighInstanceCount
HighInstanceCount == 10
\* instanceCount of isMassiveInstanceCount
MassiveInstanceCount == 50

Decision(shouldMerge, confidence, riskLevel, reason) ==
    [t |-> "decision", shouldMerge |-> shouldMerge, confidence |-> confidence,
     riskLevel |-> riskLevel, reason |-> reason]

\* structure.totalVariables of analyzeModelStructure
TotalVariables(vs) == Len(vs)

\* the risk assessment (step 2)
RiskLevel(vs, as) ==
    IF HasAnimations(as) THEN "critical"
    ELSE IF TotalVariables(vs) > ManyNamesStatic THEN "medium"
    ELSE "low"

\* estimatedPerformanceGain >= performanceThreshold (step 3); 0/0 is NaN
IsWorthwhile(c, savings, originalDrawCalls) ==
    /\ originalDrawCalls * c.instanceCount # 0
    /\ savings * c.instanceCount * 100
          >= c.performanceThreshold * originalDrawCalls * c.instanceCount

\* the decision table (step 5) and the user override
DecideMerge(c, risk, hasAnimations, savings, originalDrawCalls) ==
    LET base ==
          IF risk = "critical" THEN <<FALSE, 100>>
          ELSE IF c.instanceCount >= MassiveInstanceCount /\ originalDrawCalls > 3
          THEN <<TRUE, 95>>
          ELSE IF c.instanceCount >= HighInstanceCount /\ savings > 2
          THEN <<TRUE, 85>>
          ELSE IF c.instanceCount >= 5 /\ originalDrawCalls >= 5 /\ c.isStatic # "false"
          THEN <<TRUE, 75>>
          ELSE IF c.instanceCount >= 3 /\ originalDrawCalls >= 8 /\ ~hasAnimations
          THEN <<TRUE, 70>>
          ELSE IF risk = "medium" /\ ~c.allowBreaking
          THEN <<FALSE, 60>>
          ELSE <<FALSE, 50>>
    IN IF c.allowBreaking /\ IsWorthwhile(c, savings, originalDrawCalls)
       THEN Decision(TRUE, base[2], risk, "")
       ELSE Decision(base[1], base[2], risk, "")

\* what shouldAutoMerge returns
ShouldAutoMerge(c, ns, vs, as) ==
    LET mergeAnalysis == CreateMergedMesh([dryRun |-> TRUE, allowMerging |-> FALSE],
                                          FALSE, ns, as)
    IN IF ~mergeAnalysis.canMerge
       THEN Decision(FALSE, 100, "none", mergeAnalysis.reason)
       ELSE DecideMerge(c, RiskLevel(vs, as), HasAnimations(as),
                        mergeAnalysis.analysis.savings,
                        mergeAnalysis.analysis.originalDrawCalls)

\* the scene graph after shouldAutoMerge: its one call into the graph is the
\* dry run of createMergedMesh
ShouldAutoMergeNodes(c, ns, as) ==
    CreateMergedMeshNodes([dryRun |-> TRUE, allowMerging |-> FALSE], FALSE, ns, as)

-----------------------------------------------------------------------------
(* Calls.  A caller passes an options object that holds some of the keys;   *)
(* the destructuring defaults fill in the others.                           *)

Given(keys, vals) == [keys |-> keys, vals |-> vals]

WithDefaults(given, defaults) ==
    [f \in DOMAIN defaults |-> IF f \in given.keys THEN given.vals[f] ELSE defaults[f]]

NoCall == [op |-> "none"]

Call(op, given, opts, result) ==
    [op |-> op, given |-> given, opts |-> opts, result |-> result]

\* the caller holds the result of a call of op
Called(op) == pc = "called" /\ lastCall.op = op

NoSnapshot == [nodes |-> <<>>, variables |-> <<>>, animations |-> <<>>, tracks |-> <<>>,
               overrides |-> <<>>, defaultState |-> <<>>, scriptLines |-> <<>>]

Snapshot == [nodes |-> nodes, variables |-> variables, animations |-> animations,
             tracks |-> tracks, overrides |-> variableOverrides,
             defaultState |-> defaultState, scriptLines |-> scriptLines]

\* the instruction lines of the scripts of specification Spec
BoxA == CodeLine("$", "a", <<PrimMod("box.1.1.1", "#ff0000"),
                             PositionMod(NumE(0), NumE(0), NumE(0))>>, "")
BoxB == CodeLine("$", "b", <<PrimMod("box.1.1.1", "#ff0000"),
                             PositionMod(NumE(2), NumE(0), NumE(0))>>, "")
BoxC == CodeLine("$", "c", <<PrimMod("box.1.1.1", "#ff0000"),
                             PositionMod(NumE(4), NumE(0), NumE(0))>>, "")
BlueBox == CodeLine("", "", <<PrimMod("box.1.1.1", "#0000ff")>>, "")
StartG == CodeLine("$", "g", <<StartGroupMod>>, "")
EndG == CodeLine("", "", <<EndGroupMod>>, "")
SpinOf(n) == CodeLine("", "", <<AniMod("spin"), InstMod("rotateY", n)>>, "")
\* @spin = rotateY($a, 90, 0, 90, 180, 270, 360)
SpinAssign == CodeLine("@", "spin", <<InstMod("rotateY", "a")>>,
                       "spin=rotateY($a,90,0,90,180,270,360)")

ScriptLines == {BoxA, BoxB, BlueBox, StartG, EndG, SpinOf("a")}

OptimizeSafeArgs ==
    {Given({}, OptimizeSafeDefaults)}
    \cup {Given({"instanceThreshold", "dryRun", "allowOptimization"},
                [instanceThreshold |-> th, dryRun |-> d, allowOptimization |-> al]) :
            th \in {2, 3}, d \in BOOLEAN, al \in BOOLEAN}

CreateMergedMeshArgs ==
    {Given({}, CreateMergedMeshDefaults)}
    \cup {Given({"dryRun", "allowMerging"}, [dryRun |-> d, allowMerging |-> al]) :
            d \in BOOLEAN, al \in BOOLEAN}

OptimizeArgs ==
    {Given({}, OptimizeDefaults)}
    \cup {Given({"instanceThreshold", "preserveAnimated"},
                [instanceThreshold |-> th, preserveAnimated |-> p]) :
            th \in {2, 3}, p \in BOOLEAN}

ShouldAutoMergeArgs ==
    {Given({}, ShouldAutoMergeDefaults)}
    \cup {Given({"instanceCount", "isStatic", "allowBreaking"},
                [instanceCount |-> ic, isStatic |-> st, allowBreaking |-> ab,
                 performanceThreshold |-> 50]) :
            ic \in {1, 5, 10, 50}, st \in {"null", "false"}, ab \in BOOLEAN}

-----------------------------------------------------------------------------
(* Actions *)

\* the model as loadBM has it before the first line, given options.variables
InitModel(overrides) ==
    /\ nodes = <<>>
    /\ variables = <<>>
    /\ variableOverrides = overrides
    /\ geoTranslate = DefaultPos
    /\ animations = <<>>
    /\ tracks = <<>>
    /\ currentGroup = 0
    /\ scriptLines = <<>>
    /\ pc = "build"
    /\ lastCall = NoCall
    /\ pre = NoSnapshot
    /\ animation = ""
    /\ lastAnimation = ""
    /\ defaultState = <<>>
    /\ resetAt = 0
    /\ resetGroup = 0
    /\ pendingMaterials = <<>>

\* the model is not the first Object3D of the process
Init == InitModel(<<>>) /\ storedGeometries = <<>> /\ geometryData = <<>> /\ rootId = 1

\* the model takes what negotiateInstructionLine left in st
Negotiated(st) ==
    /\ nodes' = st.nodes
    /\ geoTranslate' = st.geoTranslate
    /\ storedGeometries' = st.storedGeometries
    /\ geometryData' = st.geometryData
    /\ variables' = st.variables
    /\ animations' = st.animations
    /\ tracks' = st.tracks
    /\ pendingMaterials' = pendingMaterials \o st.pending

\* in loadBM, where an exception rejects the load
Built(st) ==
    /\ Negotiated(st)
    /\ currentGroup' = st.currentGroup
    /\ pc' = IF st.threw THEN "rejected" ELSE pc

\* loadBM: one pass of its loop over the lines of the script
LoadLine(line) ==
    /\ pc = "build"
    /\ Built(NegotiateInstructionLine(line, nodes, variables, variableOverrides,
                                      animations, tracks, currentGroup, geoVars))
    /\ scriptLines' = Append(scriptLines, line)
    /\ UNCHANGED <<variableOverrides, lastCall, pre, aniVars, resetAt, resetGroup>>

\* a script of at most MaxLines lines
BuildLine(line) == Len(scriptLines) < MaxLines /\ LoadLine(line)

\* loadBM saves the state and returns the model
FinishBuild ==
    /\ pc = "build"
    /\ pc' = "ready"
    /\ defaultState' = SaveModelState(nodes, defaultState, rootId)
    /\ UNCHANGED <<nodes, variables, variableOverrides, animations, tracks, currentGroup,
                   scriptLines, lastCall, pre, geoVars, animation, lastAnimation, rootId,
                   asyncVars>>

CallOptimizeSafe(given) ==
    /\ pc = "ready"
    /\ LET o == WithDefaults(given, OptimizeSafeDefaults)
       IN /\ lastCall' = Call("optimizeSafe", given, o,
                              OptimizeSafe(o, nodes, variables, animations, tracks))
          /\ nodes' = OptimizeSafeNodes(o, nodes, variables, animations, tracks)
    /\ pre' = Snapshot
    /\ pc' = "called"
    /\ UNCHANGED <<variables, variableOverrides, animations, tracks, currentGroup,
                   scriptLines, geoVars, aniVars, asyncVars>>

CallCreateMergedMesh(given, throws) ==
    /\ pc = "ready"
    /\ LET o == WithDefaults(given, CreateMergedMeshDefaults)
       IN /\ lastCall' = Call("createMergedMesh", given, o,
                              CreateMergedMesh(o, throws, nodes, animations))
          /\ nodes' = CreateMergedMeshNodes(o, throws, nodes, animations)
    /\ pre' = Snapshot
    /\ pc' = "called"
    /\ UNCHANGED <<variables, variableOverrides, animations, tracks, currentGroup,
                   scriptLines, geoVars, aniVars, asyncVars>>

CallOptimize(given) ==
    /\ pc = "ready"
    /\ LET o == WithDefaults(given, OptimizeDefaults)
       IN /\ lastCall' = Call("optimize", given, o, Undefined)
          /\ nodes' = OptimizeNodes(o, nodes, variables, animations, tracks)
    /\ pre' = Snapshot
    /\ pc' = "called"
    /\ UNCHANGED <<variables, variableOverrides, animations, tracks, currentGroup,
                   scriptLines, geoVars, aniVars, asyncVars>>

CallShouldAutoMerge(given) ==
    /\ pc = "ready"
    /\ LET c == WithDefaults(given, ShouldAutoMergeDefaults)
       IN /\ lastCall' = Call("shouldAutoMerge", given, c,
                              ShouldAutoMerge(c, nodes, variables, animations))
          /\ nodes' = ShouldAutoMergeNodes(c, nodes, animations)
    /\ pre' = Snapshot
    /\ pc' = "called"
    /\ UNCHANGED <<variables, variableOverrides, animations, tracks, currentGroup,
                   scriptLines, geoVars, aniVars, asyncVars>>

\* the caller has taken the result; the model is ready for the next call
Return ==
    /\ pc = "called"
    /\ pc' = "ready"
    /\ lastCall' = NoCall
    /\ pre' = NoSnapshot
    /\ UNCHANGED <<nodes, variables, variableOverrides, animations, tracks, currentGroup,
                   scriptLines, geoVars, aniVars, asyncVars>>

Next ==
    \/ \E line \in ScriptLines : BuildLine(line)
    \/ FinishBuild
    \/ \E given \in OptimizeSafeArgs : CallOptimizeSafe(given)
    \/ \E given \in CreateMergedMeshArgs, throws \in BOOLEAN :
          CallCreateMergedMesh(given, throws)
    \/ \E given \in OptimizeArgs : CallOptimize(given)
    \/ \E given \in ShouldAutoMergeArgs : CallShouldAutoMerge(given)
    \/ Return

Spec == Init /\ [][Next]_vars

\* scripts with a group that an animation targets, and the analysis of them
GroupLines == {BoxA, BlueBox, StartG, EndG, SpinOf("g")}

NextGroup ==
    \/ \E line \in GroupLines : BuildLine(line)
    \/ FinishBuild
    \/ \E given \in OptimizeSafeArgs : CallOptimizeSafe(given)
    \/ Return

SpecGroup == Init /\ [][NextGroup]_vars

-----------------------------------------------------------------------------
(* The evaluator on its own: scripts of value assignments, load options     *)
(* with overrides, and calls of getModValue on the finished registry.       *)

EvalNames == {"x", "y", "z"}

\* the names the scripts assign to
AssignedNames == {"x", "y"}

\* the right-hand sides of the assignment lines
EvalExprs ==
    {NumE(5)} \cup {SumE(<<RefE(n), NumE(1)>>) : n \in AssignedNames}

AssignLine(n, e) == CodeLine("$", n, <<ExprMod(e)>>, "")

EvalLines == {AssignLine(n, e) : n \in AssignedNames, e \in EvalExprs}

\* options.variables of the load
EvalOverrides ==
    {<<>>,
     <<[name |-> "w", val |-> RawVal(NumE(7))]>>,
     <<[name |-> "x", val |-> NumV(7)]>>,
     <<[name |-> "z", val |-> RawVal(RefE("x"))]>>}

\* the values handed to getModValue
EvalInputs ==
    {RawVal(RefE(n)) : n \in EvalNames}
    \cup {RawVal(NegRefE(n)) : n \in EvalNames}
    \cup {RawVal(SumE(<<RefE(n), NumE(1)>>)) : n \in EvalNames}

InitEval ==
    /\ \E overrides \in EvalOverrides : InitModel(overrides)
    /\ storedGeometries = <<>> /\ geometryData = <<>>
    /\ rootId = 1

\* a caller (an operation of the script, or doAnimate) evaluates a value
CallGetModValue(val) ==
    /\ pc = "ready"
    /\ lastCall' = Call("getModValue", Given({"val"}, [val |-> val]), [val |-> val],
                        GetModValue(val, variables, variableOverrides))
    /\ pre' = Snapshot
    /\ pc' = "called"
    /\ UNCHANGED <<nodes, variables, variableOverrides, animations, tracks, currentGroup,
                   scriptLines, geoVars, aniVars, asyncVars>>

NextEval ==
    \/ \E line \in EvalLines : BuildLine(line)
    \/ FinishBuild
    \/ \E val \in EvalInputs : CallGetModValue(val)
    \/ Return

SpecEval == InitEval /\ [][NextEval]_vars

-----------------------------------------------------------------------------
(* Animation: scripts with a rotated box and two tracks, a host that sets    *)
(* bmDat.animation and calls animate(delta) once per frame.                  *)

\* $a = box(1,1,1,#ff0000) > rotate(0,350,0)
RotBoxA == CodeLine("$", "a", <<PrimMod("box.1.1.1", "#ff0000"),
                                RotateMod(NumE(0), NumE(350), NumE(0))>>, "")
\* @spin > rotateY($a,360,0)
SpinTrack == CodeLine("", "", <<AniMod("spin"),
                                TrackMod("rotateY", "a", NumE(360), <<NumE(0)>>)>>, "")
\* @mix > opacity($a,1,0) > rotateY($a,360,0)
MixTrack == CodeLine("", "", <<AniMod("mix"),
                               TrackMod("opacity", "a", NumE(1), <<NumE(0)>>),
                               TrackMod("rotateY", "a", NumE(360), <<NumE(0)>>)>>, "")

AnimLines == {RotBoxA, BoxB, SpinTrack, MixTrack}

AnimNames == {"", "spin", "mix"}

\* the frame times: 1/4 s, 1/2 s and 1 s
Deltas == {1, 2, 4}

\* Object3D ids count from 0: the root has id 0 when it is the first object made
RootIds == {0, 1}

InitAnim == InitModel(<<>>) /\ storedGeometries = <<>> /\ geometryData = <<>> /\ rootId \in RootIds

\* the host assigns bmDat.animation
SetAnimation(name) ==
    /\ pc = "ready"
    /\ animation # name
    /\ animation' = name
    /\ UNCHANGED <<nodes, variables, variableOverrides, animations, tracks, currentGroup,
                   scriptLines, pc, lastCall, pre, geoVars, lastAnimation, defaultState,
                   rootId, asyncVars>>

Thrown == [t |-> "thrown"]

\* the model after the loop over the track tid (0: no such track), which left r
Animated(tid, r, delta) ==
    /\ nodes' = r.nodes
    /\ tracks' = IF tid # 0 THEN [tracks EXCEPT ![tid] = r.track] ELSE tracks
    /\ pendingMaterials' = pendingMaterials \o r.pending
    /\ lastCall' = Call("animate", Given({"delta"}, [delta |-> delta]), [delta |-> delta],
                        IF r.threw THEN Thrown ELSE Undefined)

\* animate(delta), that is animateModel(this, delta)
Animate(delta) ==
    /\ pc = "ready"
    /\ IF animation = ""
       THEN /\ lastAnimation' = ""
            /\ nodes' = IF lastAnimation # ""
                        THEN RestoreModelState(nodes, defaultState, rootId)
                        ELSE nodes
            /\ lastCall' = Call("animate", Given({"delta"}, [delta |-> delta]),
                                [delta |-> delta], Undefined)
            /\ UNCHANGED <<defaultState, tracks, pendingMaterials>>
       ELSE /\ defaultState' = IF lastAnimation = ""
                               THEN SaveModelState(nodes, defaultState, rootId)
                               ELSE defaultState
            /\ lastAnimation' = animation
            /\ IF MapHas(animations, animation)
               THEN Animated(MapGet(animations, animation),
                             AnimateTrack(nodes, variables, variableOverrides,
                                          tracks[MapGet(animations, animation)], delta, 1),
                             delta)
               ELSE Animated(0, [nodes |-> nodes, track |-> <<>>, threw |-> FALSE,
                                 pending |-> <<>>], delta)
    /\ pre' = Snapshot
    /\ pc' = "called"
    /\ UNCHANGED <<variables, variableOverrides, animations, currentGroup, scriptLines,
                   geoVars, animation, rootId, resetAt, resetGroup>>

NextAnim ==
    \/ \E line \in AnimLines : BuildLine(line)
    \/ FinishBuild
    \/ \E name \in AnimNames : SetAnimation(name)
    \/ \E delta \in Deltas : Animate(delta)
    \/ Return

SpecAnim == InitAnim /\ [][NextAnim]_vars

\* a step of the behaviour that is a call of animate
AnimateStep == pc = "ready" /\ lastCall'.op = "animate"

SpinAt350 ==
    /\ animation = "spin"
    /\ MapHas(pre.animations, "spin")
    /\ pre.tracks[MapGet(pre.animations, "spin")]
          = <<RenderAnimation(TrackMod("rotateY", "a", NumE(360), <<NumE(0)>>))>>
    /\ VarLookup(pre.variables, "a").t = "node"
    /\ pre.nodes[VarLookup(pre.variables, "a").id].rot[2] = NumV(350)

\* C14 (as stated): with speed 360 degrees per second, the single step 0 and a
\* rotation of 350 degrees, a tick with 350 + 360 * deltaTime >= 360 leaves the
\* rotation at 350 + 360 * deltaTime - 360 degrees and the step cursor at 0
C14_RotationWrapsPastFullTurn ==
    (/\ Called("animate")
     /\ SpinAt350
     /\ 350 * DeltaDen + 360 * lastCall.opts.delta >= 360 * DeltaDen)
        => /\ nodes[VarLookup(variables, "a").id].rot[2]
                 = NumV(350 + (360 * lastCall.opts.delta) \div DeltaDen - 360)
           /\ tracks[MapGet(animations, "spin")][1].step = 0

\* C15 (as stated): a tick of the track mix, whose first instruction has the
\* action opacity and whose second rotates a, does not throw, and leaves the
\* nodes as the second instruction alone leaves them
C15_UnsupportedActionIgnored ==
    (/\ Called("animate")
     /\ animation = "mix"
     /\ MapHas(pre.animations, "mix")
     /\ VarLookup(pre.variables, "a").t = "node")
        => /\ lastCall.result # Thrown
           /\ nodes = RotateStep(pre.nodes, pre.variables, variableOverrides,
                                 pre.tracks[MapGet(pre.animations, "mix")][2],
                                 lastCall.opts.delta,
                                 VarLookup(pre.variables, "a").id).nodes

-----------------------------------------------------------------------------
(* Transform and material instructions on names that are bound to a node,   *)
(* bound to a plain value, or not bound at all.                             *)

\* $n = 5
NumN == CodeLine("$", "n", <<ExprMod(NumE(5))>>, "")
\* $x > position(1,0,0) > opacity(0) > orientation(0,90,0) > material(#00ff00)
QuietOn(x) == CodeLine("", "", <<VarMod(x), PositionMod(NumE(1), NumE(0), NumE(0)),
                                 OpacityMod(0), OrientationMod(NumE(0), NumE(90), NumE(0)),
                                 MaterialMod("#00ff00", FALSE)>>, "")
\* $x > rotate(0,90,0) > position(2,0,0)
RotateOn(x) == CodeLine("", "", <<VarMod(x), RotateMod(NumE(0), NumE(90), NumE(0)),
                                  PositionMod(NumE(2), NumE(0), NumE(0))>>, "")
\* $x > scale(2,2,2)
ScaleOn(x) == CodeLine("", "", <<VarMod(x), ScaleMod(NumE(2), NumE(2), NumE(2))>>, "")

TransformLines ==
    {NumN, BoxA}
    \cup {QuietOn(x) : x \in {"a", "q"}}
    \cup {RotateOn(x) : x \in {"a", "n", "q"}}
    \cup {ScaleOn(x) : x \in {"a", "n"}}

NextTransform ==
    \/ \E line \in TransformLines : BuildLine(line)
    \/ FinishBuild

SpecTransform == Init /\ [][NextTransform]_vars

\* position, rotate, scale, opacity, orientation and material
TransformKinds == {"position", "rotate", "scale", "opacity", "orientation", "material"}

\* the line applies transform or material instructions to a name that the
\* registry vs does not bind to a node
TransformsNonNode(line, vs) ==
    /\ line.kind = "code"
    /\ line.lhs.sigil = ""
    /\ Len(line.mods) >= 2
    /\ line.mods[1].t = "var"
    /\ VarLookup(vs, line.mods[1].n).t # "node"
    /\ \A k \in 2..Len(line.mods) : line.mods[k].t \in TransformKinds

\* C16 (as stated): a line of transform or material instructions on a name that
\* is unbound, or bound to a plain number or string, changes no node and does
\* not make the build throw or reject: the build goes on with the next line
C16_TransformOnNonNodeIsNoOp ==
    [][(/\ pc = "build"
        /\ Len(scriptLines') = Len(scriptLines) + 1
        /\ TransformsNonNode(scriptLines'[Len(scriptLines')], variables))
          => /\ nodes' = nodes
             /\ pc' = "build"]_vars

-----------------------------------------------------------------------------
(* reset(): the method starts resetRenderModel and returns without awaiting *)
(* it.  The replay of the recorded lines goes on, one line per step as in    *)
(* loadBM, while the caller already has control again; so does the part of  *)
(* a material instruction that waits for its texture.                       *)

\* lines replayed beyond which the model follows a reset no further
MaxReplay == 3

\* $s = 1
ScaleS == CodeLine("$", "s", <<ExprMod(NumE(1))>>, "")
\* $a = box(1,1,1,#ff0000) > position($s,0,0)
BoxAtS == CodeLine("$", "a", <<PrimMod("box.1.1.1", "#ff0000"),
                               PositionMod(RefE("s"), NumE(0), NumE(0))>>, "")
\* $a > material(#00ff00,30,0,1,$tex)
TextureA == CodeLine("", "", <<VarMod("a"), MaterialMod("#00ff00", TRUE)>>, "")

ResetLines == {ScaleS, BoxAtS, BoxB, TextureA}

\* options.variables of the load
ResetOverrides == {<<>>, <<[name |-> "s", val |-> NumV(3)]>>}

InitReset ==
    /\ \E overrides \in ResetOverrides : InitModel(overrides)
    /\ storedGeometries = <<>> /\ geometryData = <<>>
    /\ rootId = 1

\* reset(): resetRenderModel up to the first await of its loop (followed on models
\* whose list of recorded lines has not outgrown MaxLines)
CallReset ==
    /\ pc = "ready"
    /\ resetAt = 0
    /\ Len(scriptLines) <= MaxLines
    /\ IF Len(scriptLines) = 0
       THEN UNCHANGED <<nodes, variables, variableOverrides, animations, resetAt>>
       ELSE /\ nodes' = ClearRoot(nodes)
            /\ variables' = <<>>
            /\ variableOverrides' = <<>>
            /\ animations' = <<>>
            /\ resetAt' = 1
    /\ resetGroup' = 0
    /\ lastCall' = Call("reset", Given({}, <<>>), <<>>, Undefined)
    /\ pre' = Snapshot
    /\ pc' = "called"
    /\ UNCHANGED <<tracks, currentGroup, scriptLines, geoVars, aniVars, pendingMaterials>>

\* in resetRenderModel, where an exception ends the reset
Replayed(st) ==
    /\ Negotiated(st)
    /\ resetGroup' = st.currentGroup
    /\ resetAt' = IF st.threw THEN 0 ELSE resetAt + 1

\* one pass of the loop of resetRenderModel over _scriptLines, the array that
\* negotiateInstructionLine appends the line to; after the loop, the open group
ResetStep ==
    /\ resetAt >= 1
    /\ resetAt <= MaxReplay
    /\ IF resetAt <= Len(scriptLines)
       THEN /\ Replayed(NegotiateWithoutLoader(scriptLines[resetAt], nodes, variables,
                                               variableOverrides, animations, tracks,
                                               resetGroup, geoVars))
            /\ scriptLines' = Append(scriptLines, scriptLines[resetAt])
       ELSE /\ nodes' = IF resetGroup # 0 THEN Attach(nodes, resetGroup, ROOT) ELSE nodes
            /\ resetGroup' = 0
            /\ resetAt' = 0
            /\ UNCHANGED <<variables, animations, tracks, scriptLines, geoVars,
                           pendingMaterials>>
    /\ UNCHANGED <<variableOverrides, currentGroup, pc, lastCall, pre, aniVars>>

\* the k-th suspended doMaterialOperation goes on: its texture has arrived
SettleMaterial(k) ==
    /\ k \in 1..Len(pendingMaterials)
    /\ nodes' = [nodes EXCEPT ![pendingMaterials[k].node].mat = pendingMaterials[k].color]
    /\ pendingMaterials' = [j \in 1..(Len(pendingMaterials) - 1) |->
                              IF j < k THEN pendingMaterials[j] ELSE pendingMaterials[j + 1]]
    /\ UNCHANGED <<variables, variableOverrides, animations, tracks, currentGroup,
                   scriptLines, pc, lastCall, pre, geoVars, aniVars, resetAt, resetGroup>>

NextReset ==
    \/ \E line \in ResetLines : BuildLine(line)
    \/ FinishBuild
    \/ CallReset
    \/ ResetStep
    \/ \E k \in 1..Len(pendingMaterials) : SettleMaterial(k)
    \/ CallCreateMergedMesh(Given({}, CreateMergedMeshDefaults), FALSE)
    \/ Return

SpecReset == InitReset /\ [][NextReset]_vars

\* the replay of a reset has applied as many lines as the script had
ReplayedOnce == resetAt >= 1 /\ Len(scriptLines) = 2 * (resetAt - 1)

\* the saved poses of the nodes under the root
DefaultStates(ns, ds) == {SavedState(ds, i) : i \in Traversed(ns)}

\* C17 (as stated): once reset() has replayed the script, the model has as many
\* nodes, the same variable names, the same overrides in effect and the same
\* default-state values as the build left
C17_ResetRoundTrip ==
    (Called("reset") /\ ReplayedOnce)
        => /\ Cardinality(Traversed(nodes)) = Cardinality(Traversed(pre.nodes))
           /\ MapKeys(variables) = MapKeys(pre.variables)
           /\ variableOverrides = pre.overrides
           /\ DefaultStates(nodes, defaultState) = DefaultStates(pre.nodes, pre.defaultState)

\* no instruction is still being applied
Settled == resetAt = 0 /\ pendingMaterials = <<>>

\* C20 (as stated): whenever the caller has control, after the load callback
\* got the model and after reset() returned, every line has been applied
\* completely, the awaited part of material instructions included
C20_NeverPartlyBuilt ==
    pc \in {"ready", "called"} => Settled

\* C24 (as stated): the replay of a reset handles each recorded line once, so
\* it never gets beyond the lines recorded when reset was called, and the list
\* of recorded lines is as long as it was then
C24_ReplayKeepsRecordedLines ==
    Called("reset")
        => /\ Len(scriptLines) = Len(pre.scriptLines)
           /\ resetAt <= Len(pre.scriptLines) + 1

-----------------------------------------------------------------------------
(* Nested groups, over specification SpecGroup *)

RECURSIVE OpenGroups(_, _, _)
\* how many startgroup() lines of the script are not closed by an endgroup()
\* line after the first i lines, counted from d; -1 when an endgroup() line
\* comes with no group open
OpenGroups(lines, i, d) ==
    IF d < 0 \/ i > Len(lines) THEN d
    ELSE OpenGroups(lines, i + 1,
                    CASE lines[i] = StartG -> d + 1
                      [] lines[i] = EndG -> d - 1
                      [] OTHER -> d)

\* the script has been applied, every group it opens is closed, and no method
\* of the model has been called yet
GroupsClosed == pc = "ready" /\ lastCall = NoCall /\ OpenGroups(scriptLines, 1, 0) = 0

\* C26 (as stated): once every group of the script is closed, every node the
\* script made is reachable from the root; and after startgroup(), startgroup(),
\* endgroup(), endgroup() the inner container is a child of the outer one and
\* the outer one a child of the root
C26_GroupsNest ==
    GroupsClosed
        => /\ \A i \in 1..Len(nodes) : UnderRoot(nodes, i, Len(nodes))
           /\ scriptLines = <<StartG, StartG, EndG, EndG>>
                 => nodes[2].parent = 1 /\ nodes[1].parent = ROOT

-----------------------------------------------------------------------------
(* add($target) between named containers *)

\* $g = startgroup() > endgroup()
GroupG == CodeLine("$", "g", <<StartGroupMod, EndGroupMod>>, "")
\* $h = startgroup() > endgroup()
GroupH == CodeLine("$", "h", <<StartGroupMod, EndGroupMod>>, "")
\* $x > add($y)
AddTo(x, y) == CodeLine("", "", <<VarMod(x), AddMod(y)>>, "")

AddLines == {GroupG, GroupH, BlueBox, AddTo("g", "h"), AddTo("h", "g")}

NextAdd ==
    \/ \E line \in AddLines : BuildLine(line)
    \/ FinishBuild

SpecAdd == Init /\ [][NextAdd]_vars

RECURSIVE AncestorAt(_, _, _)
\* the k-th parent of node i (NoParent when the chain ends before, ROOT at the root)
AncestorAt(ns, i, k) ==
    IF i = ROOT \/ i = NoParent \/ k = 0 THEN i ELSE AncestorAt(ns, ns[i].parent, k - 1)

\* C27 (as stated): after any sequence of instructions no node is its own
\* ancestor, and every node that has a parent is reachable from the root (a
\* node holds one parent reference, so it never has two parents)
C27_SceneGraphIsTree ==
    \A i \in 1..Len(nodes) :
        /\ \A k \in 1..Len(nodes) : AncestorAt(nodes, i, k) # i
        /\ nodes[i].parent # NoParent => UnderRoot(nodes, i, Len(nodes))

-----------------------------------------------------------------------------
(* Names that occur more than once in one evaluation: scripts that bind y    *)
(* and z to $x, and sums of two names.                                       *)

\* $x = 5, $y = $x, $z = $x, and $x = $y, which closes a cycle
TwiceLines ==
    {AssignLine("x", NumE(5)), AssignLine("y", RefE("x")), AssignLine("z", RefE("x")),
     AssignLine("x", RefE("y"))}

\* $a+$b for names a and b, and the names on their own
TwiceInputs ==
    {RawVal(SumE(<<RefE(a), RefE(b)>>)) : a \in EvalNames, b \in EvalNames}
    \cup {RawVal(RefE(n)) : n \in EvalNames}

NextTwice ==
    \/ \E line \in TwiceLines : BuildLine(line)
    \/ FinishBuild
    \/ \E val \in TwiceInputs : CallGetModValue(val)
    \/ Return

SpecTwice == Init /\ [][NextTwice]_vars

\* the names a value refers to
RefsOf(v) ==
    IF v.t # "raw" THEN {}
    ELSE CASE v.e.t = "ref" -> {v.e.n}
           [] v.e.t = "sum" -> {v.e.terms[i].n : i \in {j \in 1..Len(v.e.terms) :
                                                          v.e.terms[j].t = "ref"}}
           [] OTHER -> {}

RECURSIVE ReachFrom(_, _, _)
\* the names reached from the names S through at most `fuel` further references
ReachFrom(rv, S, fuel) ==
    IF fuel = 0 THEN S
    ELSE ReachFrom(rv, S \cup UNION {RefsOf(MapGet(rv, n)) : n \in S \cap MapKeys(rv)},
                   fuel - 1)

\* no name of the registry lies on a reference cycle
Acyclic(rv) ==
    \A n \in MapKeys(rv) :
        n \notin ReachFrom(rv, RefsOf(MapGet(rv, n)), Cardinality(MapKeys(rv)))

\* C25 (as stated): in a registry without a reference cycle, a sum of two names
\* evaluates to the sum of what each of the names evaluates to: no occurrence
\* of a name is replaced by the fallback 0
C25_FallbackOnlyOnCycles ==
    (/\ Called("getModValue")
     /\ lastCall.opts.val.e.t = "sum"
     /\ Acyclic(RawVars(variables, variableOverrides)))
        => lastCall.result.v
              = NumAdd(GetModValue(RawVal(lastCall.opts.val.e.terms[1]),
                                   variables, variableOverrides).v,
                       GetModValue(RawVal(lastCall.opts.val.e.terms[2]),
                                   variables, variableOverrides).v)

-----------------------------------------------------------------------------
(* Step cursors: tracks with several steps, one of them a texture change,   *)
(* and a host that switches between them while it ticks.                    *)

\* swaps started and not yet completed beyond which no further tick is followed
MaxPending == 1

\* @turn > rotateY($a,360,90,0)
TurnTrack == CodeLine("", "", <<AniMod("turn"),
                                TrackMod("rotateY", "a", NumE(360), <<NumE(90), NumE(0)>>)>>, "")
\* @skin > txChange($a,1,t1,t2)
SkinTrack == CodeLine("", "", <<AniMod("skin"),
                                TrackMod("txChange", "a", NumE(1), <<StrE("t1"), StrE("t2")>>)>>, "")

TickLines == {BoxA, TurnTrack, SkinTrack}

TickNames == {"", "turn", "skin"}

TickDeltas == {1, 2}

\* a frame of the host: animate(delta)
Tick(delta) == Len(pendingMaterials) < MaxPending /\ Animate(delta)

NextTick ==
    \/ \E line \in TickLines : BuildLine(line)
    \/ FinishBuild
    \/ \E name \in TickNames : SetAnimation(name)
    \/ \E delta \in TickDeltas : Tick(delta)
    \/ \E k \in 1..Len(pendingMaterials) : SettleMaterial(k)
    \/ Return

SpecTick == Init /\ [][NextTick]_vars

\* the instructions of all track lists, as pairs of list and place
Instructions(ts) == {<<t, i>> \in (DOMAIN ts) \X (1..3) : i <= Len(ts[t])}

\* the instruction was at its last step before the call and has left it
CompletedLastStep(t, i) ==
    /\ t \in DOMAIN pre.tracks
    /\ i <= Len(pre.tracks[t])
    /\ pre.tracks[t][i].step = Len(tracks[t][i].steps) - 1
    /\ \/ tracks[t][i].step # pre.tracks[t][i].step
       \/ Len(tracks[t][i].steps) = 1 /\ nodes # pre.nodes

\* C21: the step cursor of every instruction that has a step is at least 0 and
\* less than the number of its steps, and it is 0 after the tick in which the
\* last step completed
C21_CursorWithinSteps ==
    \A p \in Instructions(tracks) :
        LET inst == tracks[p[1]][p[2]]
        IN Len(inst.steps) >= 1
              => /\ inst.step \in 0..(Len(inst.steps) - 1)
                 /\ (Called("animate") /\ CompletedLastStep(p[1], p[2])) => inst.step = 0

\* a tick completed the last of several steps of an instruction
C21_Witness ==
    /\ Called("animate")
    /\ \E p \in Instructions(tracks) :
          /\ Len(tracks[p[1]][p[2]].steps) >= 2
          /\ CompletedLastStep(p[1], p[2])
          /\ tracks[p[1]][p[2]].step = 0

\* C22 (as stated): after a tick, every instruction of every track list other
\* than the active one has its cursor at 0, and so has every instruction of
\* every track list when no animation is active
C22_InactiveCursorsAtZero ==
    Called("animate")
        => \A n \in MapKeys(animations) :
              n # animation
                 => \A i \in 1..Len(tracks[MapGet(animations, n)]) :
                       tracks[MapGet(animations, n)][i].step = 0

\* C29 (as stated): when animate has returned, every change it makes to a node
\* has been made: no material swap that a tick started is still to come
C29_TickHasNoDeferredEffects ==
    Called("animate") => pendingMaterials = <<>>

-----------------------------------------------------------------------------
(* Looping: a host whose frames keep coming.                                *)

\* @far > rotateY($a,360,0,720)
FarTrack == CodeLine("", "", <<AniMod("far"),
                               TrackMod("rotateY", "a", NumE(360), <<NumE(0), NumE(720)>>)>>, "")

LoopLines == {BoxA, TurnTrack, FarTrack}

LoopNames == {"", "turn", "far"}

\* the next frame of the host
Frame == \E delta \in TickDeltas : Animate(delta)

NextLoop ==
    \/ \E line \in LoopLines : BuildLine(line)
    \/ FinishBuild
    \/ \E name \in LoopNames : SetAnimation(name)
    \/ Frame
    \/ Return

\* the host does not stop: while the name of the animation stays as it is, the
\* steps left to it are the frames and their returns
SpecLoop == Init /\ [][NextLoop]_vars /\ WF_vars(NextLoop)

\* the track n is active, it is registered and its target a is a node
Looping(n) ==
    /\ animation = n
    /\ MapHas(animations, n)
    /\ VarLookup(variables, "a").t = "node"

\* the cursor of the first instruction of track n
CursorOf(n) == IF MapHas(animations, n) THEN tracks[MapGet(animations, n)][1].step ELSE 0 - 1

\* C28 (as stated): while a track stays active and frames keep coming, its
\* rotate instruction, of positive speed and with an existing target, reaches
\* each of its steps again and again, whatever the numeric targets of the steps
\* (<>[]Looping(n) => []<>(CursorOf(n) = k), written as one []<>)
C28_ActiveTrackLoopsForever ==
    /\ []<>(~Looping("turn") \/ CursorOf("turn") = 0)
    /\ []<>(~Looping("turn") \/ CursorOf("turn") = 1)
    /\ []<>(~Looping("far") \/ CursorOf("far") = 0)
    /\ []<>(~Looping("far") \/ CursorOf("far") = 1)

-----------------------------------------------------------------------------
(* Properties of the optimization methods, over specification Spec.  After a *)
(* call, lastCall holds the options and the result, pre the model before it. *)

\* the graph and the registry are what they were before the call
ModelUnchanged ==
    /\ nodes = pre.nodes
    /\ variables = pre.variables
    /\ animations = pre.animations
    /\ tracks = pre.tracks

\* node i is bound to a name that some animation instruction targets
IsAnimationTarget(ns, vs, as, ts, i) ==
    \E k \in 1..Len(vs) : vs[k].val = NodeVal(i) /\ vs[k].name \in AnimTargets(as, ts)

\* the drawables that are an animation target or lie under one
TargetedMeshes(ns, vs, as, ts) ==
    {i \in TraversedMeshes(ns) :
        \/ IsAnimationTarget(ns, vs, as, ts, i)
        \/ \E p \in Ancestors(ns, i, Len(ns)) : IsAnimationTarget(ns, vs, as, ts, p)}

\* the model of the three-box script: a, b and c name three boxes that differ
\* in position only, and nothing else is in the graph
ThreeBoxModel(ns, vs, as) ==
    /\ Len(ns) = 3
    /\ MapKeys(vs) = {"a", "b", "c"}
    /\ \A i \in 1..3 : IsMesh(ns, i) /\ ns[i].parent = ROOT
    /\ \A i, j \in 1..3 : KeyOf(ns, i, TRUE) = KeyOf(ns, j, TRUE)
    /\ {VarLookup(vs, n) : n \in {"a", "b", "c"}} = {NodeVal(i) : i \in 1..3}
    /\ ~HasAnimations(as)

\* C1 (as stated): on a model with an animation track createMergedMesh returns,
\* for every combination of dryRun and allowMerging, a refusal object with
\* canMerge false and a reason naming the animations, and leaves the graph alone
C1_AnimatedMergeAlwaysRefused ==
    (Called("createMergedMesh") /\ HasAnimations(pre.animations))
        => /\ lastCall.result.t = "refusal"
           /\ ~lastCall.result.canMerge
           /\ lastCall.result.reason = "Model has animations"
           /\ nodes = pre.nodes

\* C2 (as stated): called with default options, none of optimize, optimizeSafe,
\* shouldAutoMerge and createMergedMesh changes the graph or the registry
C2_DefaultsChangeNothing ==
    (pc = "called" /\ lastCall.given.keys = {}) => ModelUnchanged

\* C3 (as stated): optimizeSafe and createMergedMesh, called with dryRun false
\* and without their allow flag, return a failure object with a reason and
\* leave the graph and the registry alone
C3_UnallowedExecuteReturnsFailure ==
    (\/ Called("optimizeSafe") /\ ~lastCall.opts.dryRun /\ ~lastCall.opts.allowOptimization
     \/ Called("createMergedMesh") /\ ~lastCall.opts.dryRun /\ ~lastCall.opts.allowMerging)
        => /\ lastCall.result.t = "refusal"
           /\ ModelUnchanged

\* an analysis-only call: a dry run of optimizeSafe or createMergedMesh, or shouldAutoMerge
AnalysisOnlyCall ==
    \/ Called("optimizeSafe") /\ lastCall.opts.dryRun
    \/ Called("createMergedMesh") /\ lastCall.opts.dryRun
    \/ Called("shouldAutoMerge")

\* C4: an analysis-only call leaves the graph, the registry and the step cursors
\* of the tracks as they were, and a dry run of optimizeSafe repeated on the
\* model it leaves returns the same result
C4_AnalysisIsPure ==
    AnalysisOnlyCall
        => /\ ModelUnchanged
           /\ Called("optimizeSafe")
                 => lastCall.result = OptimizeSafe(lastCall.opts, nodes, variables,
                                                   animations, tracks)

\* C4 happens: a dry run of optimizeSafe that finds something to save, and a
\* dry run of createMergedMesh on a model it could merge
C4_Witness ==
    \/ /\ Called("optimizeSafe") /\ lastCall.opts.dryRun
       /\ lastCall.result.potentialSavings > 0
    \/ /\ Called("createMergedMesh") /\ lastCall.opts.dryRun
       /\ lastCall.result.t = "analysis"

\* C5 (as stated): shouldAutoMerge reports riskLevel critical exactly when the
\* model has an animation track
C5_CriticalIffAnimated ==
    Called("shouldAutoMerge")
        => (lastCall.result.riskLevel = "critical" <=> HasAnimations(pre.animations))

\* C6: on a model with an animation track shouldAutoMerge answers shouldMerge
\* false with confidence 1.0 (100 percent), whatever the context, allowBreaking
\* included
C6_AnimatedNeverMerged ==
    (Called("shouldAutoMerge") /\ HasAnimations(pre.animations))
        => /\ ~lastCall.result.shouldMerge
           /\ lastCall.result.confidence = 100

\* C6 happens: an animated model of three meshes of one material, where a merge
\* would be worthwhile, asked with allowBreaking
C6_Witness ==
    /\ Called("shouldAutoMerge")
    /\ HasAnimations(pre.animations)
    /\ lastCall.opts.allowBreaking
    /\ Cardinality(TraversedMeshes(pre.nodes)) >= 3
    /\ Len(MaterialKeys(pre.nodes)) = 1

\* C7 (as stated): on the three-box script optimizeSafe with instanceThreshold 3,
\* dryRun false and allowOptimization true brings the draw calls from 3 to 1,
\* and a, b and c still resolve to objects
C7_ThreeBoxesBecomeOneDrawCall ==
    (/\ Called("optimizeSafe")
     /\ ThreeBoxModel(pre.nodes, pre.variables, pre.animations)
     /\ lastCall.opts = [instanceThreshold |-> 3, dryRun |-> FALSE,
                         allowOptimization |-> TRUE])
        => /\ DrawCalls(pre.nodes) = 3
           /\ DrawCalls(nodes) = 1
           /\ \A n \in {"a", "b", "c"} : VarLookup(variables, n).t = "node"

\* C8 (as stated): the analysis of optimizeSafe counts as animated, and keeps
\* out of the instancing candidates, every drawable that is an animation target
\* or has an ancestor container that is one, named or not
C8_TargetedDrawablesProtected ==
    (Called("optimizeSafe") /\ lastCall.opts.dryRun)
        => /\ TargetedMeshes(nodes, variables, animations, tracks)
                 \cap Optimizable(nodes, variables, animations, tracks) = {}
           /\ lastCall.result.actuallyAnimatedObjects
                 >= Cardinality(TargetedMeshes(nodes, variables, animations, tracks))

\* C19: when mergeGeometries throws during createMergedMesh with dryRun false
\* and allowMerging true, the call returns the structured failure, and the
\* children of the root, the parent links and the transforms are as before
C19_FailingMergeIsAtomic ==
    (/\ Called("createMergedMesh")
     /\ ~lastCall.opts.dryRun
     /\ lastCall.opts.allowMerging
     /\ ~HasAnimations(pre.animations)
     /\ Cardinality(TraversedMeshes(pre.nodes)) >= 2
     /\ ~lastCall.result.success)
        => /\ lastCall.result = Refusal("Merge operation failed")
           /\ nodes = pre.nodes

\* C19 happens: a merge of a group and two meshes under the root has failed
C19_Witness ==
    /\ Called("createMergedMesh")
    /\ lastCall.result = Refusal("Merge operation failed")
    /\ Cardinality(ChildrenOf(pre.nodes, ROOT)) >= 2
    /\ \E i \in 1..Len(pre.nodes) : pre.nodes[i].kind = "group"
    /\ \E i \in 1..Len(pre.nodes) : pre.nodes[i].pos # DefaultPos

-----------------------------------------------------------------------------
(* The three-box script, alone and with an animation line, and the          *)
(* optimizations on it.                                                     *)

TrackLines == {BoxA, BoxB, BoxC, SpinAssign, SpinOf("a")}

NextTrack ==
    \/ \E line \in TrackLines : BuildLine(line)
    \/ FinishBuild
    \/ \E given \in OptimizeSafeArgs : CallOptimizeSafe(given)
    \/ \E given \in CreateMergedMeshArgs : CallCreateMergedMesh(given, FALSE)
    \/ Return

SpecTrack == Init /\ [][NextTrack]_vars

\* C18 (as stated): the three-box script followed by the line
\* @spin = rotateY($a, 90, 0, 90, 180, 270, 360) registers a track named spin
\* whose instruction targets a, and createMergedMesh on that model returns
\* canMerge false with the reason that names the animations
C18_SpinAssignmentRegistersTrack ==
    (/\ Len(scriptLines) = 4
     /\ {scriptLines[k] : k \in 1..3} = {BoxA, BoxB, BoxC}
     /\ scriptLines[4] = SpinAssign
     /\ Called("createMergedMesh")
     /\ lastCall.opts.dryRun)
        => /\ MapHas(animations, "spin")
           /\ "a" \in AnimTargets(animations, tracks)
           /\ ~lastCall.result.canMerge
           /\ lastCall.result.reason = "Model has animations"

-----------------------------------------------------------------------------
(* Properties of the evaluator, over specification SpecEval *)

\* the registry binds x to $y + 1 and y to $x + 1, and no override hides them
MutualXY ==
    /\ MapHas(variables, "x") /\ MapHas(variables, "y")
    /\ MapGet(variables, "x") = RawVal(SumE(<<RefE("y"), NumE(1)>>))
    /\ MapGet(variables, "y") = RawVal(SumE(<<RefE("x"), NumE(1)>>))
    /\ ~MapHas(variableOverrides, "x") /\ ~MapHas(variableOverrides, "y")

\* C9 (as stated): with x = $y + 1 and y = $x + 1, getModValue of $x and of $y
\* each return 0
C9_MutualReferenceYieldsZero ==
    (/\ Called("getModValue")
     /\ MutualXY
     /\ lastCall.opts.val \in {RawVal(RefE("x")), RawVal(RefE("y"))})
        => lastCall.result.v = NumV(0)

\* C10: every evaluation ends, and the depth its resolution of names reaches
\* is at most the number of distinct names in the registry and the overrides
C10_EvaluationBounded ==
    Called("getModValue")
        => /\ ~lastCall.result.hang
           /\ lastCall.result.depth
                 <= Cardinality(MapKeys(RawVars(variables, variableOverrides)))

\* C10 happens: an evaluation that runs into a name it is already resolving,
\* after going as deep as the registry has names
C10_Witness ==
    /\ Called("getModValue")
    /\ MutualXY
    /\ lastCall.opts.val = RawVal(RefE("x"))
    /\ lastCall.result.depth >= 2

\* C11: a name with a caller-supplied override evaluates to the override's
\* value whatever the script assigned to it; no line of the script changes
\* the overrides, and the binding the script made stays in the registry
C11_OverridesShadowAndSurvive ==
    /\ [](\A k \in 1..Len(variableOverrides) :
            (/\ Called("getModValue")
             /\ variableOverrides[k].val.t = "num"
             /\ lastCall.opts.val = RawVal(RefE(variableOverrides[k].name)))
                => lastCall.result.v = variableOverrides[k].val)
    /\ [][/\ variableOverrides' = variableOverrides
          /\ \A n \in MapKeys(variables) : MapHas(variables', n)]_vars

\* C11 happens: x is overridden with 7, the script has bound x to something
\* else, and $x is evaluated
C11_Witness ==
    /\ Called("getModValue")
    /\ MapHas(variableOverrides, "x")
    /\ MapHas(variables, "x")
    /\ MapGet(variables, "x") # MapGet(variableOverrides, "x")
    /\ lastCall.opts.val = RawVal(RefE("x"))

-----------------------------------------------------------------------------
(* The geometry cache: models built one after the other in one process.     *)

GeoLines ==
    {CodeLine("$", "s", <<ExprMod(NumE(1))>>, ""),
     CodeLine("", "", <<ShapeMod("box", <<NumE(1), NumE(1), NumE(1)>>, "#ff0000"),
                        ShapeMod("box", <<RefE("s"), NumE(1), NumE(1)>>, "#0000ff")>>, ""),
     CodeLine("", "", <<ShapeMod("sphere", <<NumE(1), NumE(1), NumE(1)>>, "#ff0000")>>, ""),
     CodeLine("", "", <<GeoTranslateMod(NumE(0), NumE(1), NumE(0))>>, "")}

\* loadBM is called again: a new model, the cache of the process stays
NewModel ==
    /\ pc = "ready"
    /\ Len(storedGeometries) <= MaxCached
    /\ nodes' = <<>>
    /\ variables' = <<>>
    /\ animations' = <<>>
    /\ tracks' = <<>>
    /\ currentGroup' = 0
    /\ scriptLines' = <<>>
    /\ geoTranslate' = DefaultPos
    /\ pc' = "build"
    /\ defaultState' = <<>>
    /\ UNCHANGED <<variableOverrides, storedGeometries, geometryData, lastCall, pre, animation,
                   lastAnimation, rootId, asyncVars>>

NextGeo ==
    \/ \E line \in GeoLines : BuildLine(line)
    \/ FinishBuild
    \/ NewModel

SpecGeo == Init /\ [][NextGeo]_vars

\* C12: two primitives of the same kind with equal evaluated parameters and
\* equal active offset have the identical geometry handle: within a model,
\* and across models because each handle is the one the cache holds under
\* that name and an entry of the cache is never replaced
C12_EqualParametersShareGeometry ==
    /\ [](\A i, j \in 1..Len(nodes) :
            /\ nodes[i].geoName = nodes[j].geoName => nodes[i].geometry = nodes[j].geometry
            /\ MapHas(storedGeometries, nodes[i].geoName)
            /\ MapGet(storedGeometries, nodes[i].geoName) = nodes[i].geometry)
    /\ [][\A k \in 1..Len(storedGeometries) :
            /\ Len(storedGeometries') >= k
            /\ storedGeometries'[k] = storedGeometries[k]]_vars

\* C12 happens: the first line of a later model creates a mesh whose geometry
\* is one an earlier model put into the cache
C12_Witness ==
    /\ Len(scriptLines) = 1
    /\ Len(nodes) >= 1
    /\ nodes[1].geometry > 0
    /\ nodes[1].geometry < Len(storedGeometries)

-----------------------------------------------------------------------------
(* Geometries that several meshes hold, over specification SpecShare.        *)

\* box(1.5,2,3,#ff0000)
WideBox ==
    CodeLine("", "", <<ShapeMod("box", <<DecE(1, 5), NumE(2), NumE(3)>>, "#ff0000")>>, "")
\* box(1,5.2,3,#ff0000)
TallBox ==
    CodeLine("", "", <<ShapeMod("box", <<NumE(1), DecE(5, 2), NumE(3)>>, "#ff0000")>>, "")
\* box(1,1,1,#0000ff)
PlainBox ==
    CodeLine("", "", <<ShapeMod("box", <<NumE(1), NumE(1), NumE(1)>>, "#0000ff")>>, "")
\* box(1,1,1,#ff0000) > bottomAlign()
GroundedBox ==
    CodeLine("", "", <<ShapeMod("box", <<NumE(1), NumE(1), NumE(1)>>, "#ff0000"),
                       BottomAlignMod>>, "")

ShareLines == {WideBox, TallBox, PlainBox, GroundedBox}

NextShare ==
    \/ \E line \in ShareLines : BuildLine(line)
    \/ FinishBuild
    \/ NewModel

SpecShare == Init /\ [][NextShare]_vars

\* C23: the vertex data of every geometry the cache holds are the data it was
\* built with: no instruction, bottomAlign least of all, changes them
C23_CachedGeometryNeverModified ==
    \A h \in 1..Len(geometryData) : geometryData[h].lowest = geometryData[h].built

\* C30: two meshes that hold the same geometry were created from the same
\* kind, the same evaluated parameters and the same offset
C30_DifferentTuplesDifferentEntries ==
    \A i, j \in 1..Len(nodes) :
        (nodes[i].geometry # 0 /\ nodes[i].geometry = nodes[j].geometry)
            => /\ nodes[i].geo = nodes[j].geo
               /\ nodes[i].geoOffset = nodes[j].geoOffset

-----------------------------------------------------------------------------
(* A texture change whose speed is a variable, over specification SpecDwell. *)

\* the largest renTime, in 1/DeltaDen s, from which the host still calls animate
MaxDwell == 8

\* $d = 1
DwellD == CodeLine("$", "d", <<ExprMod(NumE(1))>>, "")
\* @slow > txChange($a,$d,t1,t2)
SlowTrack == CodeLine("", "", <<AniMod("slow"),
                                TrackMod("txChange", "a", RefE("d"), <<StrE("t1"), StrE("t2")>>)>>, "")

DwellLines == {DwellD, BoxA, SlowTrack}

DwellNames == {"", "slow"}

\* a frame of the host
DwellTick(delta) ==
    /\ \A t \in 1..Len(tracks) : \A i \in 1..Len(tracks[t]) : tracks[t][i].renTime <= MaxDwell
    /\ Animate(delta)

NextDwell ==
    \/ \E line \in DwellLines : BuildLine(line)
    \/ FinishBuild
    \/ \E name \in DwellNames : SetAnimation(name)
    \/ \E delta \in TickDeltas : DwellTick(delta)
    \/ Return

SpecDwell == Init /\ [][NextDwell]_vars

\* C34: the speed of a texture change is resolved through the evaluator and is
\* the time a step stays: when it evaluates to a number D, no tick leaves the
\* accumulated time of the instruction at D or more (the tick that reaches D
\* advances the cursor and sets the time back to 0); D > 0
C34_SpeedIsDwellDuration ==
    \A t \in 1..Len(tracks) : \A i \in 1..Len(tracks[t]) :
        (/\ tracks[t][i].action = "txChange"
         /\ GetModValue(RawVal(tracks[t][i].speed), variables, variableOverrides).v.t = "num"
         /\ GetModValue(RawVal(tracks[t][i].speed), variables, variableOverrides).v.v > 0)
            => tracks[t][i].renTime
                  < GetModValue(RawVal(tracks[t][i].speed), variables,
                                variableOverrides).v.v * DeltaDen

-----------------------------------------------------------------------------
(* Texture loads that end in any order, over specification SpecSwap.         *)

\* the texture loads the host lets run at a time before its next frame
MaxLoads == 2

SwapLines == {BoxA, SkinTrack}

SwapNames == {"", "skin"}

\* a frame of the host
SwapTick(delta) == Len(pendingMaterials) < MaxLoads /\ Animate(delta)

NextSwap ==
    \/ \E line \in SwapLines : BuildLine(line)
    \/ FinishBuild
    \/ \E name \in SwapNames : SetAnimation(name)
    \/ \E delta \in TickDeltas : SwapTick(delta)
    \/ \E k \in 1..MaxLoads : SettleMaterial(k)
    \/ Return

SpecSwap == Init /\ [][NextSwap]_vars

\* the step of an instruction that fired last: the one before its cursor
LastFired(inst) == inst.steps[IF inst.step = 0 THEN Len(inst.steps) ELSE inst.step]

\* C37: when the texture loads that the steps of one texture-change instruction
\* started have all ended, the material of its target is the one of the step
\* that fired last, whatever the order in which the loads ended
C37_LastFiredStepWins ==
    \A t \in 1..Len(tracks) :
        (/\ Len(tracks[t]) = 1
         /\ tracks[t][1].action = "txChange"
         /\ pendingMaterials = <<>>
         /\ VarLookup(variables, tracks[t][1].target).t = "node"
         /\ nodes[VarLookup(variables, tracks[t][1].target).id].mat
               \in {TextureOf(tracks[t][1].steps[k]) : k \in 1..Len(tracks[t][1].steps)})
            => nodes[VarLookup(variables, tracks[t][1].target).id].mat
                  = TextureOf(LastFired(tracks[t][1]))

-----------------------------------------------------------------------------
(* optimize() on scripts with an animated group, over specification         *)
(* SpecOptimize.                                                             *)

NextOptimize ==
    \/ \E line \in GroupLines : BuildLine(line)
    \/ FinishBuild
    \/ \E given \in OptimizeArgs : CallOptimize(given)
    \/ Return

SpecOptimize == Init /\ [][NextOptimize]_vars

\* C33: after optimize() with preserveAnimated, every node that an animation
\* instruction targets and that was under the root is still under the root,
\* with the ancestors it had
C33_AnimationTargetsStayAttached ==
    (Called("optimize") /\ lastCall.opts.preserveAnimated)
        => \A i \in 1..Len(pre.nodes) :
              (/\ IsAnimationTarget(pre.nodes, pre.variables, pre.animations, pre.tracks, i)
               /\ UnderRoot(pre.nodes, i, Len(pre.nodes)))
                 => /\ UnderRoot(nodes, i, Len(nodes))
                    /\ Ancestors(nodes, i, Len(nodes))
                          = Ancestors(pre.nodes, i, Len(pre.nodes))

-----------------------------------------------------------------------------
(* A drawable bound to two names, over specification SpecAlias.              *)

\* $b = $a > position(2,0,0)
AliasB == CodeLine("$", "b", <<VarMod("a"), PositionMod(NumE(2), NumE(0), NumE(0))>>, "")

AliasLines == {BoxA, BlueBox, AliasB, SpinOf("b")}

NextAlias ==
    \/ \E line \in AliasLines : BuildLine(line)
    \/ FinishBuild
    \/ \E given \in OptimizeSafeArgs : CallOptimizeSafe(given)
    \/ Return

SpecAlias == Init /\ [][NextAlias]_vars

\* C32: a drawable bound to a name that an animation instruction targets,
\* whichever of its names that is, is not among the drawables that
\* optimizeSafe counts as optimizable
C32_ProtectedUnderEveryName ==
    Called("optimizeSafe")
        => \A i \in TraversedMeshes(pre.nodes) :
              IsAnimationTarget(pre.nodes, pre.variables, pre.animations, pre.tracks, i)
                 => i \notin Optimizable(pre.nodes, pre.variables, pre.animations, pre.tracks)

-----------------------------------------------------------------------------
(* The threshold optimizeSafe applies, over specification SpecThreshold.     *)

\* the thresholds the callers ask for
Thresholds == 1..4

ThresholdArgs == {Given({"instanceThreshold"}, [instanceThreshold |-> th]) : th \in Thresholds}

ThresholdLines == {BoxA, BlueBox, SpinOf("a")}

NextThreshold ==
    \/ \E line \in ThresholdLines : BuildLine(line)
    \/ FinishBuild
    \/ \E given \in ThresholdArgs : CallOptimizeSafe(given)
    \/ Return

SpecThreshold == Init /\ [][NextThreshold]_vars

\* C35: the threshold optimizeSafe applies is never higher than the one asked
\* for, so every group of identical optimizable drawables whose size reaches
\* the threshold asked for is reported as an instance group
C35_AppliedThresholdNotHigher ==
    (Called("optimizeSafe") /\ lastCall.opts.dryRun /\ lastCall.opts.instanceThreshold >= 1)
        => /\ AdaptiveThreshold(lastCall.opts.instanceThreshold, pre.nodes, pre.animations)
                 <= lastCall.opts.instanceThreshold
           /\ lastCall.result.instanceGroups
                 >= Cardinality(InstanceGroups(pre.nodes,
                                               Optimizable(pre.nodes, pre.variables,
                                                           pre.animations, pre.tracks),
                                               lastCall.opts.instanceThreshold))

-----------------------------------------------------------------------------
(* shouldAutoMerge on models with many names, over specification SpecNamed:  *)
(* the script starts with the lines $v1 = 1, $v2 = 1, ... and goes on with   *)
(* boxes.                                                                    *)

\* the number of names from which a model without animations is rated medium
ManyNames == ManyNamesStatic + 1

\* $v1 = 1, ..., one line per name
NameLines == [k \in 1..ManyNames |-> AssignLine("v" \o ToString(k), NumE(1))]

\* loadBM reads the name lines first, in order
NameLine ==
    /\ Len(scriptLines) < ManyNames
    /\ LoadLine(NameLines[Len(scriptLines) + 1])

NamedLines == {BoxA, BoxB, BlueBox, SpinOf("a")}

\* the lines after the names
NamedBuildLine(line) ==
    /\ Len(scriptLines) >= ManyNames
    /\ Len(scriptLines) < ManyNames + MaxLines
    /\ LoadLine(line)

NextNamed ==
    \/ NameLine
    \/ \E line \in NamedLines : NamedBuildLine(line)
    \/ FinishBuild
    \/ \E given \in ShouldAutoMergeArgs : CallShouldAutoMerge(given)
    \/ Return

SpecNamed == Init /\ [][NextNamed]_vars

\* C36: a model rated medium is not recommended for merging unless the caller
\* allowed breaking changes
C36_MediumRiskNeedsAllowBreaking ==
    (/\ Called("shouldAutoMerge")
     /\ lastCall.result.riskLevel = "medium"
     /\ ~lastCall.opts.allowBreaking)
        => ~lastCall.result.shouldMerge

-----------------------------------------------------------------------------
(* The placement of merged geometry, over specification SpecBake: boxes in   *)
(* groups that are moved, turned by quarter turns or scaled, then            *)
(* createMergedMesh. Matrices are computed over the integers.                *)

\* cosine and sine of a quarter-turn angle given in degrees
QuarterCos(d) ==
    CASE d % FullTurn = 0 -> 1 [] d % FullTurn = 90 -> 0
      [] d % FullTurn = 180 -> -1 [] d % FullTurn = 270 -> 0

QuarterSin(d) ==
    CASE d % FullTurn = 0 -> 0 [] d % FullTurn = 90 -> 1
      [] d % FullTurn = 180 -> 0 [] d % FullTurn = 270 -> -1

\* the rotation matrix of Euler angles in the order XYZ, row by row
RotationMatrix(x, y, z) ==
    LET a == QuarterCos(x) b == QuarterSin(x)
        c == QuarterCos(y) d == QuarterSin(y)
        e == QuarterCos(z) f == QuarterSin(z)
    IN <<<<c * e, -(c * f), d>>,
         <<a * f + b * e * d, a * e - b * f * d, -(b * c)>>,
         <<b * f - a * e * d, b * e + a * f * d, a * c>>>>

\* an affine matrix: lin its upper-left 3x3 part, off its translation column
\* Matrix4.compose(position, quaternion, scale) of a local matrix
Compose(m) ==
    [lin |-> [r \in 1..3 |->
                [c \in 1..3 |->
                    RotationMatrix(m.rot[1].v, m.rot[2].v, m.rot[3].v)[r][c]
                        * m.scale[c].v]],
     off |-> [r \in 1..3 |-> m.pos[r].v]]

\* the matrix product A * B
Multiply(A, B) ==
    [lin |-> [r \in 1..3 |->
                [c \in 1..3 |-> A.lin[r][1] * B.lin[1][c] + A.lin[r][2] * B.lin[2][c]
                                   + A.lin[r][3] * B.lin[3][c]]],
     off |-> [r \in 1..3 |-> A.lin[r][1] * B.off[1] + A.lin[r][2] * B.off[2]
                                + A.lin[r][3] * B.off[3] + A.off[r]]]

RECURSIVE MatrixWorld(_, _, _)
\* matrixWorld of node i relative to the model: parentMatrixWorld * localMatrix
MatrixWorld(ns, i, fuel) ==
    IF fuel = 0 \/ ns[i].parent = ROOT \/ ns[i].parent = NoParent
    THEN Compose(LocalMatrix(ns[i]))
    ELSE Multiply(MatrixWorld(ns, ns[i].parent, fuel - 1), Compose(LocalMatrix(ns[i])))

\* where the k-th part of the merged mesh m is drawn
PartPlacement(ns, m, k) ==
    Multiply(MatrixWorld(ns, m, Len(ns)), Compose(ns[m].parts[k].matrix))

MovedG == CodeLine("$", "g", <<StartGroupMod, PositionMod(NumE(2), NumE(0), NumE(0))>>, "")
TurnedG == CodeLine("$", "g", <<StartGroupMod, RotateMod(NumE(0), NumE(90), NumE(0))>>, "")
GrownG == CodeLine("$", "g", <<StartGroupMod, ScaleMod(NumE(2), NumE(2), NumE(2))>>, "")

BakeLines == {MovedG, TurnedG, GrownG, BoxA, BoxB, BlueBox, EndG}

NextBake ==
    \/ \E line \in BakeLines : BuildLine(line)
    \/ FinishBuild
    \/ \E given \in CreateMergedMeshArgs : CallCreateMergedMesh(given, FALSE)
    \/ Return

SpecBake == Init /\ [][NextBake]_vars

\* C31: after a merge every part of a merged geometry is drawn where its
\* drawable was drawn before the merge, with the transforms of all its ancestor
\* containers
C31_MergedAtWorldPlacement ==
    (Called("createMergedMesh") /\ lastCall.result.t = "merged")
        => \A m \in Traversed(nodes) :
              \A k \in 1..Len(nodes[m].parts) :
                 PartPlacement(nodes, m, k)
                    = MatrixWorld(pre.nodes, nodes[m].parts[k].src, Len(pre.nodes))

====
